---- MODULE Spec2Model ----
(***************************************************************************)
(* A model of ps2vcard's roster parser, src/ps2vcard/parsers/html.py:      *)
(* the class AlbertRosterHtmlParser, an html.parser.HTMLParser whose       *)
(* handlers drive a transitions.Machine.                                   *)
(*                                                                         *)
(* Strings.  A Python str is a sequence of symbols.  A symbol is a TLA+    *)
(* string holding either one character ("$", "/", " ", "|", ",", "&", a    *)
(* digit, ...) or a word: a run of characters that starts with a letter    *)
(* and contains none of "$", "/", "?", " ", "|", ",".  A word is never     *)
(* matched by \d+ (it holds a non-digit) and always by [^$]*, so the       *)
(* regular expression of unpack_element behaves on symbols as it does on   *)
(* characters.  Field values (the text buffer) are written character by    *)
(* character.  Dictionary keys (field names, attribute names, tag names,   *)
(* entity names) are only ever compared whole and are TLA+ strings.        *)
(*                                                                         *)
(* A value that may be None is a record [has, v]: has = FALSE is None.     *)
(***************************************************************************)
EXTENDS Integers, Sequences, FiniteSets, TLC

\* ------------------------------------------------------------------ bounds

\* The number of handler calls (start tags, text, entity and character
\* references, end tags) of one event stream.
MaxEvents == 5

\* The number of attributes one start tag carries, at most.
MaxAttrs == 2

\* The number of start tags of a top-level (frameset) document.
MaxTopTags == 3

\* The number of rows of a roster.
MaxRows == 3

\* AlbertRosterHtmlParser instances alive together, and the events they are
\* given between them
MaxInstances == 2
MaxInstanceEvents == 4

\* ------------------------------------------------------- Python primitives

NoneV == [has |-> FALSE, v |-> <<>>]
Some(s) == [has |-> TRUE, v |-> s]

EmptyDict == [k \in {} |-> <<>>]

\* d[k] = v on a dict
DictSet(d, k, v) == [x \in (DOMAIN d) \cup {k} |-> IF x = k THEN v ELSE d[x]]

Digits == {"0", "1", "2", "3", "4", "5", "6", "7", "8", "9"}

DigitValue(c) ==
  CASE c = "0" -> 0 [] c = "1" -> 1 [] c = "2" -> 2 [] c = "3" -> 3
    [] c = "4" -> 4 [] c = "5" -> 5 [] c = "6" -> 6 [] c = "7" -> 7
    [] c = "8" -> 8 [] c = "9" -> 9

\* int(s) for a non-empty string of digits
RECURSIVE int(_)
int(s) ==
  IF s = <<>> THEN 0
  ELSE 10 * int(SubSeq(s, 1, Len(s) - 1)) + DigitValue(s[Len(s)])

StartsWith(s, p) == Len(p) <= Len(s) /\ SubSeq(s, 1, Len(p)) = p

\* s.split(sep): the pieces between the non-overlapping occurrences of sep,
\* found left to right; cur is the piece being read.
RECURSIVE SplitFrom(_, _, _)
SplitFrom(s, sep, cur) ==
  IF s = <<>> THEN <<cur>>
  ELSE IF StartsWith(s, sep)
       THEN <<cur>> \o SplitFrom(SubSeq(s, Len(sep) + 1, Len(s)), sep, <<>>)
       ELSE SplitFrom(Tail(s), sep, Append(cur, Head(s)))

split(s, sep) == SplitFrom(s, sep, <<>>)

\* os.path.join(a, b) of posixpath, for two components
os_path_join(a, b) ==
  IF StartsWith(b, <<"/">>) THEN b
  ELSE IF a = <<>> \/ a[Len(a)] = "/" THEN a \o b
       ELSE a \o <<"/">> \o b

\* html.entities.entitydefs, the entries the inputs below use
entitydefs == [n \in {"amp", "lt", "gt"} |->
                 CASE n = "amp" -> <<"&">> [] n = "lt" -> <<"<">> [] n = "gt" -> <<">">>]

\* re.match("([^$]*)\$(\d+)$", s): the groups, or None.  "$" at the end of the
\* pattern also matches just before a final newline.
re_match(s) ==
  LET body == IF s # <<>> /\ s[Len(s)] = "\n" THEN SubSeq(s, 1, Len(s) - 1) ELSE s
      dollars == {i \in 1..Len(body) : body[i] = "$"}
  IN IF \E i \in dollars :
          /\ \A j \in dollars : j >= i
          /\ i < Len(body)
          /\ \A j \in (i + 1)..Len(body) : body[j] \in Digits
     THEN LET i == CHOOSE i \in dollars : \A j \in dollars : j >= i
          IN [kind |-> "match", g1 |-> SubSeq(body, 1, i - 1),
              g2 |-> SubSeq(body, i + 1, Len(body))]
     ELSE [kind |-> "None", g1 |-> <<>>, g2 |-> <<>>]

\* ------------------------------------------------------------ key registry

student_keys_dict ==
  (<<"CLASS_ROSTER_VW_EMPLID">> :> "id")
  @@ (<<"SCC_PRFPRIMNMVW_NAME">> :> "name")
  @@ (<<"DERIVED_SSSMAIL_EMAIL_ADDR">> :> "email")
  @@ (<<"SCC_PREF_PHN_VW_PHONE">> :> "phone")
  @@ (<<"PROGPLAN">> :> "progplan")
  @@ (<<"PROGPLAN1">> :> "level")
  @@ (<<"PSXLATITEM_XLATLONGNAME">> :> "status")

course_keys_dict ==
  (<<"DERIVED_SSR_FC_SSR_CLASSNAME_LONG">> :> "code")
  @@ (<<"DERIVED_SSR_FC_SSS_PAGE_KEYDESCR2">> :> "description")
  @@ (<<"DERIVED_SSR_FC_DESCR254">> :> "name")
  @@ (<<"MTG_INSTR", "$", "0">> :> "instructor")
  @@ (<<"MTG_SCHED", "$", "0">> :> "schedule")
  @@ (<<"MTG_LOC", "$", "0">> :> "room")
  @@ (<<"MTG_DATE", "$", "0">> :> "dates")

photo_key == <<"win10divEMPL_PHOTO_EMPLOYEE_PHOTO">>

\* The attributes of the class, one object each for all its instances; they
\* are the first objects of the process, each under its address.
ClassAttributes == <<student_keys_dict, course_keys_dict, photo_key>>

\* ------------------------------------------------------------------- state

VARIABLES
  state,            \* the Machine's state
  course_data,      \* dict: field name -> str
  student_records,  \* dict: index -> dict: field name -> str
  current_key,      \* field name being captured, "" when none
  current_index,    \* student index being captured
  data,             \* the text buffer
  albert_key,       \* the course key being captured: unset, None or a str
  elem,             \* tag_name, attr_name, attr_value, attr_value_match
  base_dir,         \* the directory photo paths are resolved against
  err,              \* "none", or the exception that ended the parse
  cur_tag,          \* the tag handle_starttag is looping over, "" outside it
  cur_attrs,        \* the list of attributes it was called with
  nattrs,           \* attributes of cur_attrs handled so far
  nevents,          \* handler calls so far
  ev,               \* the event handled last
  open_id,          \* the attribute value that last moved the machine out of seeking_key
  open_dups,        \* later attributes of that start tag that carried the same value
  log,              \* the lines handle_starttag's logger has been given with
                    \* log.error: one logger for the process
  logger,           \* an AlbertRosterHtmlParser given one event
  frameset,         \* an AlbertRosterFramesetParser and the position of its parse
  first_frame,      \* the attributes of the first TargetContent frame its document had
  roster_parser,    \* an AlbertRosterHtmlParser whose parse has fed its document
  roster,           \* the rows of a roster read so far (ps.csv or ps.xls)
  amc,              \* an AmcCsvWriter, the position of its write and its output
  vcard_amc,        \* the XLS pipeline: the parser's vCards, a VcardAmcCsvWriter's output
  seeker,           \* an AlbertRosterHtmlParser in seeking_key and the attribute it is given
  instances,        \* the class attributes and the AlbertRosterHtmlParser instances made so far
  repeat            \* an AlbertRosterHtmlParser given the same key a second time

parser_vars == <<state, course_data, student_records, current_key, current_index,
                 data, albert_key, elem>>
html_vars == <<state, course_data, student_records, current_key, current_index,
               data, albert_key, elem, base_dir, err, cur_tag, cur_attrs, nattrs,
               nevents, ev, open_id, open_dups>>
frameset_vars == <<frameset, first_frame>>
vars == <<state, course_data, student_records, current_key, current_index, data,
          albert_key, elem, base_dir, err, cur_tag, cur_attrs, nattrs, nevents, ev,
          open_id, open_dups, log, logger, frameset, first_frame, roster_parser, roster, amc,
          vcard_amc, seeker, instances, repeat>>
writer_vars == <<roster, amc, vcard_amc>>

\* What the steps of one object leave alone: the other objects.  The log is
\* not among them where a step may call handle_starttag: every parser
\* writes to the one logger.
outside_html == <<frameset_vars, roster_parser, writer_vars, seeker, instances, repeat,
                  logger>>
outside_frameset == <<html_vars, roster_parser, writer_vars, seeker, instances, repeat,
                      logger>>
outside_roster_parser == <<html_vars, frameset_vars, writer_vars, seeker, instances,
                           repeat, logger, log>>
outside_writers == <<html_vars, frameset_vars, roster_parser, seeker, instances, repeat,
                     logger, log>>
outside_seeker == <<html_vars, frameset_vars, roster_parser, writer_vars, instances,
                    repeat, logger>>
outside_instances == <<html_vars, frameset_vars, roster_parser, writer_vars, seeker,
                       repeat, logger>>
outside_logger == <<html_vars, frameset_vars, roster_parser, writer_vars, seeker,
                    instances, repeat>>
outside_repeat == <<html_vars, frameset_vars, roster_parser, writer_vars, seeker,
                    instances, logger>>

States == {"seeking_key", "found_course_key", "found_student_key",
           "seeking_student_data", "seeking_course_data", "seeking_student_image"}

\* The parser object as one value: what the callbacks read and write.
self == [state |-> state, course_data |-> course_data,
         student_records |-> student_records, current_key |-> current_key,
         current_index |-> current_index, data |-> data, albert_key |-> albert_key,
         elem |-> elem, base_dir |-> base_dir, err |-> err]

Unset == [kind |-> "unset", v |-> <<>>]
NoMatch == [kind |-> "unset", g1 |-> <<>>, g2 |-> <<>>]
NoElem == [def |-> FALSE, tag_name |-> "", attr_name |-> "", attr_value |-> NoneV,
           attr_value_match |-> NoMatch]

Raise(p, e) == [p EXCEPT !.err = e]

\* --------------------------------------------------------------- callbacks
\* Every callback takes the parser and the arguments of the trigger
\* (tag and attr, or data, or name, or nothing) and gives the parser after it.

unpack_element(p, tag, attr) ==
  LET e1 == [def |-> TRUE, tag_name |-> tag, attr_name |-> attr.name,
             attr_value |-> attr.value,
             attr_value_match |-> p.elem.attr_value_match]
  IN IF ~attr.value.has
     THEN Raise([p EXCEPT !.elem = e1], "TypeError")
     ELSE [p EXCEPT !.elem = [e1 EXCEPT !.attr_value_match = re_match(attr.value.v)]]

cleanup_unpack_element(p, tag, attr) ==
  IF ~p.elem.def \/ p.elem.attr_value_match.kind = "unset"
  THEN Raise(p, "AttributeError")
  ELSE [p EXCEPT !.elem = NoElem]

attr_is_course_key(p, tag, attr) ==
  /\ p.elem.attr_name = "id"
  /\ p.elem.attr_value.has
  /\ p.elem.attr_value.v \in DOMAIN course_keys_dict

store_key(p, tag, attr) ==
  [p EXCEPT !.albert_key = [kind |-> "str", v |-> p.elem.attr_value.v]]

handle_course_key(p, tag, attr) ==
  [p EXCEPT !.current_key = course_keys_dict[p.elem.attr_value.v]]

attr_is_student_key(p, tag, attr) ==
  /\ p.elem.attr_name = "id"
  /\ p.elem.attr_value_match.kind = "match"
  /\ p.elem.attr_value_match.g1 \in DOMAIN student_keys_dict

\* handle_student_key with a fault: the field name is not looked up.
handle_student_key_without_name(p, tag, attr) ==
  [p EXCEPT !.current_index = int(p.elem.attr_value_match.g2)]

\* handle_student_key with a fault: the record of the index is looked up, and
\* the defaultdict makes it.
handle_student_key_making_record(p, tag, attr) ==
  [p EXCEPT !.current_key = student_keys_dict[p.elem.attr_value_match.g1],
            !.current_index = int(p.elem.attr_value_match.g2),
            !.student_records =
              LET i == int(p.elem.attr_value_match.g2)
              IN DictSet(p.student_records, i,
                         IF i \in DOMAIN p.student_records
                         THEN p.student_records[i] ELSE EmptyDict)]

handle_student_key(p, tag, attr) ==
  [p EXCEPT !.current_key = student_keys_dict[p.elem.attr_value_match.g1],
            !.current_index = int(p.elem.attr_value_match.g2)]

found_photo_key(p, tag, attr) ==
  /\ p.elem.attr_name = "id"
  /\ p.elem.attr_value_match.kind = "match"
  /\ p.elem.attr_value_match.g1 = photo_key

handle_photo_key(p, tag, attr) ==
  [p EXCEPT !.current_index = int(p.elem.attr_value_match.g2)]

\* found_img_src with a fault: the tag's name is not looked at.
found_img_src_on_any_tag(p, tag, attr) ==
  p.elem.attr_name = "src"

found_img_src(p, tag, attr) ==
  p.elem.tag_name = "img" /\ p.elem.attr_name = "src"

\* student_records is a defaultdict(dict): the record is made on first use
RecordOf(recs, i) == IF i \in DOMAIN recs THEN recs[i] ELSE EmptyDict

\* handle_img_src with a fault: the query string of the src is cut off before
\* the path is stored.
handle_img_src_without_query(p, tag, attr) ==
  LET s == p.elem.attr_value.v
      cut == {i \in 1..Len(s) : s[i] = "?"}
      clean == IF cut = {} THEN s
               ELSE SubSeq(s, 1, (CHOOSE i \in cut : \A j \in cut : i <= j) - 1)
  IN IF ~p.base_dir.has THEN Raise(p, "AttributeError")
     ELSE [p EXCEPT !.student_records =
             DictSet(p.student_records, p.current_index,
                     DictSet(RecordOf(p.student_records, p.current_index), "photo",
                             os_path_join(p.base_dir.v, clean)))]

\* The right-hand side is evaluated first: on a parser that has no base_dir
\* it raises AttributeError before the record is looked up.
handle_img_src(p, tag, attr) ==
  IF ~p.base_dir.has THEN Raise(p, "AttributeError")
  ELSE [p EXCEPT !.student_records =
          DictSet(p.student_records, p.current_index,
                  DictSet(RecordOf(p.student_records, p.current_index), "photo",
                          os_path_join(p.base_dir.v, p.elem.attr_value.v)))]

buffer_data_committing(p, d) ==
  [p EXCEPT !.data = p.data \o d,
            !.student_records =
              DictSet(p.student_records, p.current_index,
                      DictSet(RecordOf(p.student_records, p.current_index),
                              p.current_key, p.data \o d))]

\* buffer_data with a fault: = for +=.
buffer_data_replacing(p, d) == [p EXCEPT !.data = d]

buffer_data(p, d) == [p EXCEPT !.data = p.data \o d]

\* buffer_translated_entityref with a fault: the character is put in front of
\* the buffer, out of document order.
buffer_translated_entityref_in_front(p, name) ==
  IF name \in DOMAIN entitydefs
  THEN [p EXCEPT !.data = entitydefs[name] \o p.data]
  ELSE Raise(p, "KeyError")

buffer_translated_entityref(p, name) ==
  IF name \in DOMAIN entitydefs
  THEN [p EXCEPT !.data = p.data \o entitydefs[name]]
  ELSE Raise(p, "KeyError")

\* capture_course_data with a fault: the record of the current index is
\* looked up, and the defaultdict makes it.
capture_course_data_making_record(p) ==
  [p EXCEPT !.course_data = DictSet(p.course_data, p.current_key, p.data),
            !.student_records =
              DictSet(p.student_records, p.current_index,
                      RecordOf(p.student_records, p.current_index))]

capture_course_data(p) ==
  [p EXCEPT !.course_data = DictSet(p.course_data, p.current_key, p.data)]

\* capture_student_data with a fault: the text is put after the value the
\* record holds already.
capture_student_data_appending(p) ==
  LET rec == RecordOf(p.student_records, p.current_index)
      old == IF p.current_key \in DOMAIN rec THEN rec[p.current_key] ELSE <<>>
  IN [p EXCEPT !.student_records =
        DictSet(p.student_records, p.current_index,
                DictSet(rec, p.current_key, old \o p.data))]

\* capture_student_data with a fault: every field lands in record 0.
capture_student_data_in_record_0(p) ==
  [p EXCEPT !.student_records =
     DictSet(p.student_records, 0,
             DictSet(RecordOf(p.student_records, 0), p.current_key, p.data))]

capture_student_data(p) ==
  [p EXCEPT !.student_records =
     DictSet(p.student_records, p.current_index,
             DictSet(RecordOf(p.student_records, p.current_index),
                     p.current_key, p.data))]

\* key_is_course_description with a fault: the field name is misspelt, so
\* the description is committed like any other course field.
key_is_course_description_misspelt(p) ==
  /\ p.albert_key.kind = "str"
  /\ p.albert_key.v \in DOMAIN course_keys_dict
  /\ course_keys_dict[p.albert_key.v] = "descr"

key_is_course_description(p) ==
  /\ p.albert_key.kind = "str"
  /\ p.albert_key.v \in DOMAIN course_keys_dict
  /\ course_keys_dict[p.albert_key.v] = "description"

\* unpack_course_description with a fault: session and org change places.
unpack_course_description_swapped(p) ==
  LET parts == split(p.course_data["description"], <<" ", "|", " ">>)
  IN IF Len(parts) # 4
     THEN Raise(p, "ValueError")
     ELSE [p EXCEPT !.course_data =
             DictSet(DictSet(DictSet(DictSet(p.course_data,
               "term", parts[1]), "session", parts[3]), "org", parts[2]),
               "level", parts[4])]

\* unpack_course_description with a fault: a description of fewer than four
\* components is padded with empty ones, a longer one is cut to four.
unpack_course_description_lenient(p) ==
  LET parts == split(p.course_data["description"], <<" ", "|", " ">>)
      part(i) == IF i <= Len(parts) THEN parts[i] ELSE <<>>
  IN [p EXCEPT !.course_data =
        DictSet(DictSet(DictSet(DictSet(p.course_data,
          "term", part(1)), "session", part(2)), "org", part(3)),
          "level", part(4))]

unpack_course_description(p) ==
  LET parts == split(p.course_data["description"], <<" ", "|", " ">>)
  IN IF Len(parts) # 4
     THEN Raise(p, "ValueError")
     ELSE [p EXCEPT !.course_data =
             DictSet(DictSet(DictSet(DictSet(p.course_data,
               "term", parts[1]), "session", parts[2]), "org", parts[3]),
               "level", parts[4])]

\* reset_buffers with a fault: the text buffer is left as it is.
reset_buffers_keeping_data(p) ==
  [p EXCEPT !.albert_key = [kind |-> "None", v |-> <<>>],
            !.current_index = 0, !.current_key = ""]

reset_buffers(p) ==
  [p EXCEPT !.albert_key = [kind |-> "None", v |-> <<>>],
            !.current_index = 0, !.current_key = "", !.data = <<>>]

\* ---------------------------------------------------- the transition table

\* One add_transition call.  prepare, conditions, before and after are the
\* callbacks' names, in the order given.
T(trigger, source, dest, prepare, conditions, before, after) ==
  [trigger |-> trigger, source |-> source, dest |-> dest, prepare |-> prepare,
   conditions |-> conditions, before |-> before, after |-> after]

DataTransitions(source) ==
  << T("machine_handle_data", source, source, <<>>, <<>>, <<"buffer_data">>, <<>>),
     T("machine_handle_entityref", source, source, <<>>, <<>>,
       <<"buffer_translated_entityref">>, <<>>) >>

\* SubjectTransitions with a fault: finish_handling_attrs does not move the
\* machine on from found_*_key.
SubjectTransitions_finish_staying(subject) ==
  LET seeking == IF subject = "course" THEN "seeking_course_data"
                 ELSE "seeking_student_data"
      found == IF subject = "course" THEN "found_course_key" ELSE "found_student_key"
      capture == IF subject = "course" THEN "capture_course_data"
                 ELSE "capture_student_data"
  IN << T("machine_handle_endtag", seeking, "seeking_key", <<>>, <<>>,
          <<capture>>, <<"reset_buffers">>),
        T("machine_handle_attr", found, found, <<>>, <<>>, <<>>, <<>>),
        T("finish_handling_attrs", found, found, <<>>, <<>>, <<>>, <<>>) >>

\* SubjectTransitions with a fault: found_*_key has no transition for a
\* further attribute of the same start tag.
SubjectTransitions_without_self_loop(subject) ==
  LET seeking == IF subject = "course" THEN "seeking_course_data"
                 ELSE "seeking_student_data"
      found == IF subject = "course" THEN "found_course_key" ELSE "found_student_key"
      capture == IF subject = "course" THEN "capture_course_data"
                 ELSE "capture_student_data"
  IN << T("machine_handle_endtag", seeking, "seeking_key", <<>>, <<>>,
          <<capture>>, <<"reset_buffers">>),
        T("finish_handling_attrs", found, seeking, <<>>, <<>>, <<>>, <<>>) >>

\* SubjectTransitions with a fault: in found_*_key a further attribute that
\* carries the photo marker is matched, and takes the machine with it.
SubjectTransitions_matching_again(subject) ==
  LET seeking == IF subject = "course" THEN "seeking_course_data"
                 ELSE "seeking_student_data"
      found == IF subject = "course" THEN "found_course_key" ELSE "found_student_key"
      capture == IF subject = "course" THEN "capture_course_data"
                 ELSE "capture_student_data"
  IN << T("machine_handle_endtag", seeking, "seeking_key", <<>>, <<>>,
          <<capture>>, <<"reset_buffers">>),
        T("machine_handle_attr", found, "seeking_student_image",
          <<"unpack_element">>, <<"found_photo_key">>,
          <<"handle_photo_key">>, <<"cleanup_unpack_element">>),
        T("machine_handle_attr", found, found, <<>>, <<>>, <<>>, <<>>),
        T("finish_handling_attrs", found, seeking, <<>>, <<>>, <<>>, <<>>) >>

SubjectTransitions(subject) ==
  LET seeking == IF subject = "course" THEN "seeking_course_data"
                 ELSE "seeking_student_data"
      found == IF subject = "course" THEN "found_course_key" ELSE "found_student_key"
      capture == IF subject = "course" THEN "capture_course_data"
                 ELSE "capture_student_data"
  IN << T("machine_handle_endtag", seeking, "seeking_key", <<>>, <<>>,
          <<capture>>, <<"reset_buffers">>),
        T("machine_handle_attr", found, found, <<>>, <<>>, <<>>, <<>>),
        T("finish_handling_attrs", found, seeking, <<>>, <<>>, <<>>, <<>>) >>

\* IgnoreTransition with a fault: text met while seeking a key is buffered.
IgnoreTransition_buffering(trigger) ==
  T(trigger, "seeking_key", "seeking_key", <<>>, <<>>,
    IF trigger = "machine_handle_data" THEN <<"buffer_data">> ELSE <<>>, <<>>)

IgnoreTransition(trigger) ==
  T(trigger, "seeking_key", "seeking_key", <<>>, <<>>, <<>>, <<>>)

\* The transitions in the order __init__ adds them: the Machine tries the
\* transitions of a trigger from the current state in this order.
Transitions ==
  << T("machine_handle_attr", "seeking_key", "found_course_key",
       <<"unpack_element">>, <<"attr_is_course_key">>,
       <<"store_key", "handle_course_key">>, <<"cleanup_unpack_element">>),
     T("machine_handle_attr", "seeking_key", "found_student_key",
       <<>>, <<"attr_is_student_key">>,
       <<"handle_student_key">>, <<"cleanup_unpack_element">>),
     T("machine_handle_attr", "seeking_key", "seeking_student_image",
       <<>>, <<"found_photo_key">>,
       <<"handle_photo_key">>, <<"cleanup_unpack_element">>),
     T("machine_handle_attr", "seeking_student_image", "seeking_key",
       <<"unpack_element">>, <<"found_img_src">>,
       <<"handle_img_src">>, <<"cleanup_unpack_element">>) >>
  \o DataTransitions("seeking_course_data")
  \o DataTransitions("seeking_student_data")
  \o << T("machine_handle_endtag", "seeking_course_data", "seeking_key",
          <<>>, <<"key_is_course_description">>,
          <<"capture_course_data", "unpack_course_description">>,
          <<"reset_buffers">>) >>
  \o SubjectTransitions("course")
  \o SubjectTransitions("student")
  \o << IgnoreTransition("machine_handle_data"),
        IgnoreTransition("machine_handle_entityref"),
        IgnoreTransition("machine_handle_endtag"),
        IgnoreTransition("finish_handling_attrs"),
        T("finish_handling_attrs", "seeking_student_image", "seeking_student_image",
          <<>>, <<>>, <<>>, <<>>) >>

\* ------------------------------------------------- transitions.Machine

\* The arguments a trigger is called with, passed on to every callback.
Args(tag, attr, d, name) == [tag |-> tag, attr |-> attr, data |-> d, name |-> name]

\* One callback, called by name with the trigger's arguments.
Call(name, p, a) ==
  CASE name = "unpack_element" -> unpack_element(p, a.tag, a.attr)
    [] name = "cleanup_unpack_element" -> cleanup_unpack_element(p, a.tag, a.attr)
    [] name = "store_key" -> store_key(p, a.tag, a.attr)
    [] name = "handle_course_key" -> handle_course_key(p, a.tag, a.attr)
    [] name = "handle_student_key" -> handle_student_key(p, a.tag, a.attr)
    [] name = "handle_photo_key" -> handle_photo_key(p, a.tag, a.attr)
    [] name = "handle_img_src" -> handle_img_src(p, a.tag, a.attr)
    [] name = "buffer_data" -> buffer_data(p, a.data)
    [] name = "buffer_translated_entityref" -> buffer_translated_entityref(p, a.name)
    [] name = "capture_course_data" -> capture_course_data(p)
    [] name = "capture_student_data" -> capture_student_data(p)
    [] name = "unpack_course_description" -> unpack_course_description(p)
    [] name = "reset_buffers" -> reset_buffers(p)

\* One condition, called by name; the Machine compares its result with True.
Check(name, p, a) ==
  CASE name = "attr_is_course_key" -> attr_is_course_key(p, a.tag, a.attr)
    [] name = "attr_is_student_key" -> attr_is_student_key(p, a.tag, a.attr)
    [] name = "found_photo_key" -> found_photo_key(p, a.tag, a.attr)
    [] name = "found_img_src" -> found_img_src(p, a.tag, a.attr)
    [] name = "key_is_course_description" -> key_is_course_description(p)

\* A condition that reads an attribute the parser does not have raises.
CheckRaises(name, p) ==
  IF name = "key_is_course_description" THEN p.albert_key.kind = "unset"
  ELSE ~p.elem.def

\* Machine.callbacks: the callbacks in order; an exception ends the list.
RECURSIVE callbacks(_, _, _)
callbacks(names, p, a) ==
  IF names = <<>> \/ p.err # "none" THEN p
  ELSE callbacks(Tail(names), Call(Head(names), p, a), a)

\* Transition.execute on the transitions left to try: prepare, then the
\* conditions; when they hold, before, the state change and after, and no
\* later transition is tried.
RECURSIVE execute(_, _, _)
execute(ts, p, a) ==
  IF ts = <<>> THEN p
  ELSE LET t == Head(ts)
           p1 == callbacks(t.prepare, p, a)
       IN IF p1.err # "none" THEN p1
          ELSE IF \E i \in 1..Len(t.conditions) : CheckRaises(t.conditions[i], p1)
          THEN Raise(p1, "AttributeError")
          ELSE IF ~(\A i \in 1..Len(t.conditions) : Check(t.conditions[i], p1, a))
          THEN execute(Tail(ts), p1, a)
          ELSE LET p2 == callbacks(t.before, p1, a)
               IN IF p2.err # "none" THEN p2
                  ELSE callbacks(t.after, [p2 EXCEPT !.state = t.dest], a)

\* Event.trigger with a fault: a trigger with no transition from the current
\* state is passed over, as under ignore_invalid_triggers.
trigger_ignoring_invalid(name, p, a) ==
  LET ts == SelectSeq(Transitions,
                      LAMBDA t : t.trigger = name /\ t.source = p.state)
  IN IF ts = <<>> THEN p ELSE execute(ts, p, a)

\* Event.trigger: a trigger with no transition from the current state raises
\* MachineError (ignore_invalid_triggers is not set).
trigger(name, p, a) ==
  LET ts == SelectSeq(Transitions,
                      LAMBDA t : t.trigger = name /\ t.source = p.state)
  IN IF ts = <<>> THEN Raise(p, "MachineError") ELSE execute(ts, p, a)

NoAttr == [name |-> "", value |-> NoneV]
NoArgs == Args("", NoAttr, <<>>, "")

\* machine_handle_attr with a fault: finish_handling_attrs is fired inside
\* handle_starttag's loop, after every attribute.
machine_handle_attr_and_finish(p, tag, attr) ==
  LET q == trigger("machine_handle_attr", p, Args(tag, attr, <<>>, ""))
  IN IF q.err # "none" THEN q ELSE trigger("finish_handling_attrs", q, NoArgs)

machine_handle_attr(p, tag, attr) ==
  trigger("machine_handle_attr", p, Args(tag, attr, <<>>, ""))
\* finish_handling_attrs with a fault: the trigger is not fired.
finish_handling_attrs_not_fired(p) == p

finish_handling_attrs(p) == trigger("finish_handling_attrs", p, NoArgs)
machine_handle_data(p, d) == trigger("machine_handle_data", p, Args("", NoAttr, d, ""))
machine_handle_entityref(p, name) ==
  trigger("machine_handle_entityref", p, Args("", NoAttr, <<>>, name))
machine_handle_endtag(p) == trigger("machine_handle_endtag", p, NoArgs)

\* ------------------------------------------------------------------ inputs

Tags == {"span", "img"}

Attr(name, value) == [name |-> name, value |-> Some(value)]

DescriptionId == <<"DERIVED_SSR_FC_SSS_PAGE_KEYDESCR2">>
InstructorId == <<"MTG_INSTR", "$", "0">>
NameId(digits) == <<"SCC_PRFPRIMNMVW_NAME", "$">> \o digits
EmailId(digits) == <<"DERIVED_SSSMAIL_EMAIL_ADDR", "$">> \o digits
PhotoId(digits) == photo_key \o <<"$">> \o digits

\* The img src values: a relative path with a query string.
Srcs == { <<"p1.jpg", "?", "v1">> }

\* The attributes a start tag may carry: keys of each kind under id, the same
\* key under name, a key the registry does not hold, an attribute with no
\* value (<td nowrap>), and img sources.
Attrs ==
  { Attr("id", DescriptionId), Attr("id", InstructorId),
    Attr("name", DescriptionId),
    Attr("id", NameId(<<"0">>)),
    Attr("id", EmailId(<<"0", "1">>)),
    Attr("id", PhotoId(<<"0">>)), Attr("id", PhotoId(<<"1">>)),
    Attr("id", <<"win0divPAGECONTAINER", "$", "1">>),
    [name |-> "nowrap", value |-> NoneV] }
  \cup { Attr("src", s) : s \in Srcs }

\* The lists of at most n attributes.
RECURSIVE AttrLists(_)
AttrLists(n) ==
  IF n <= 0 THEN { <<>> }
  ELSE { <<>> } \cup { <<a>> \o l : a \in Attrs, l \in AttrLists(n - 1) }

\* The attribute lists of the start tags a page is made of: no attribute, any
\* one attribute, and lists of two and three: a key under id and under name
\* in either order, a key twice, a key and then another, a key beside an
\* attribute without value, a key the registry does not hold before one it
\* holds, a key before the photo marker or a src, and the photo marker beside
\* a src.
NoValue == [name |-> "nowrap", value |-> NoneV]

StartTagLists ==
  { <<>> } \cup { <<a>> : a \in Attrs }
  \cup { << Attr("id", DescriptionId), Attr("name", DescriptionId) >>,
         << Attr("name", DescriptionId), Attr("id", DescriptionId) >>,
         << Attr("id", DescriptionId), Attr("id", DescriptionId) >>,
         << Attr("id", InstructorId), Attr("id", InstructorId) >>,
         << Attr("id", DescriptionId), Attr("id", InstructorId) >>,
         << Attr("id", NameId(<<"0">>)), Attr("id", NameId(<<"0">>)) >>,
         << Attr("id", NameId(<<"0">>)), Attr("id", EmailId(<<"0", "1">>)) >>,
         << Attr("id", NameId(<<"0">>)), Attr("id", PhotoId(<<"1">>)) >>,
         << Attr("id", DescriptionId), Attr("src", <<"p1.jpg", "?", "v1">>) >>,
         << Attr("id", EmailId(<<"0", "1">>)), Attr("id", EmailId(<<"0", "1">>)) >>,
         << Attr("id", PhotoId(<<"1">>)), Attr("id", PhotoId(<<"1">>)) >>,
         << NoValue, Attr("id", DescriptionId) >>,
         << Attr("id", DescriptionId), NoValue >>,
         << Attr("id", NameId(<<"0">>)), NoValue >>,
         << Attr("id", <<"win0divPAGECONTAINER", "$", "1">>), Attr("id", NameId(<<"0">>)) >>,
         << Attr("id", PhotoId(<<"0">>)), Attr("src", <<"p1.jpg", "?", "v1">>) >>,
         << Attr("src", <<"p1.jpg", "?", "v1">>), Attr("id", PhotoId(<<"1">>)) >> }
  \cup { << NoValue, Attr("id", DescriptionId), Attr("name", DescriptionId) >>,
         << Attr("id", NameId(<<"0">>)), Attr("id", NameId(<<"0">>)),
            Attr("id", EmailId(<<"0", "1">>)) >>,
         << Attr("id", PhotoId(<<"0">>)), Attr("src", <<"p1.jpg", "?", "v1">>), NoValue >> }

StartTagAttrs == { attrs \in StartTagLists : Len(attrs) <= MaxAttrs }

\* Text events: field values, character by character.
TextABCD == <<"A", " ", "|", " ", "B", " ", "|", " ", "C", " ", "|", " ", "D">>
TextDoeJane == <<"D", "o", "e", ",", "J", "a", "n", "e">>
Texts == {TextABCD, TextDoeJane}

\* Numeric character references: &#38; is the ampersand.
CharRefNames == {"38"}

\* Entity names: known to entitydefs, and not.
EntityNames == {"amp", "bogus"}

BaseDirs == { <<"roster_files">> }

\* ---------------------------------------------------- the parse as a whole
\* The handlers as functions of the parser, HTMLParser.feed as their fold over
\* a document's events, and parse: feed, then one vCard per student record.

\* The value {} that a defaultdict(dict) makes for a key it does not hold.  No
\* text equals it: the symbols of a text are single characters.
NewDict == <<"{}">>

\* d[k] on a defaultdict(dict): reading a missing key stores {} under it.
Touch(d, k) == IF k \in DOMAIN d THEN d ELSE DictSet(d, k, NewDict)

RECURSIVE rstrip_slash(_)
rstrip_slash(s) ==
  IF s # <<>> /\ s[Len(s)] = "/" THEN rstrip_slash(SubSeq(s, 1, Len(s) - 1)) ELSE s

\* os.path.dirname(p) of posixpath: what is before the last "/", without its
\* trailing slashes unless it is nothing but slashes.
os_path_dirname(p) ==
  LET slashes == {i \in 1..Len(p) : p[i] = "/"}
  IN IF slashes = {} THEN <<>>
     ELSE LET i == CHOOSE i \in slashes : \A j \in slashes : j <= i
              head == SubSeq(p, 1, i)
          IN IF \A j \in 1..i : head[j] = "/" THEN head ELSE rstrip_slash(head)

RECURSIVE SkipNewlines(_)
SkipNewlines(s) == IF s # <<>> /\ Head(s) = "\n" THEN SkipNewlines(Tail(s)) ELSE s

\* re.split(" - \n+", s): cur is the piece being read.
RECURSIVE ReSplitFrom(_, _)
ReSplitFrom(s, cur) ==
  IF s = <<>> THEN <<cur>>
  ELSE IF StartsWith(s, <<" ", "-", " ", "\n">>)
       THEN <<cur>> \o ReSplitFrom(SkipNewlines(SubSeq(s, 4, Len(s))), <<>>)
       ELSE ReSplitFrom(Tail(s), Append(cur, Head(s)))

unpack_progplan(progplan) == ReSplitFrom(progplan, <<>>)

\* AlbertRosterHtmlParser(): a new parser.  __init__ makes no base_dir: the
\* attribute is not there until parse, or the frameset parser, assigns it;
\* student_order is the order in which student_records got its keys, the
\* order items() follows; student_vcards is set by parse and read by nothing
\* before.
NewAlbertRosterHtmlParser ==
  [state |-> "seeking_key", course_data |-> EmptyDict, student_records |-> EmptyDict,
   current_key |-> "", current_index |-> 0, data |-> <<>>, albert_key |-> Unset,
   elem |-> NoElem, base_dir |-> NoneV, err |-> "none",
   student_order |-> <<>>, student_vcards |-> <<>>]

\* handle_starttag's loop over attrs; an exception ends it.
RECURSIVE handle_attrs(_, _, _)
handle_attrs(p, tag, attrs) ==
  IF attrs = <<>> \/ p.err # "none" THEN p
  ELSE handle_attrs(machine_handle_attr(p, tag, Head(attrs)), tag, Tail(attrs))

handle_starttag(p, tag, attrs) ==
  LET q == handle_attrs(p, tag, attrs)
  IN IF q.err # "none" THEN q ELSE finish_handling_attrs(q)

\* The except clause of handle_starttag: the three lines its logger is given
\* when a turn of the loop raises MachineError, attrs being the whole list
\* the handler was called with.  No other exception and no other handler
\* logs.
log_error(p, tag, attrs) ==
  << <<"current_key", p.current_key>>, <<"tag", tag>>, <<"attrs", attrs>> >>

handle_starttag_log(p, tag, attrs) ==
  LET q == handle_attrs(p, tag, attrs)
  IN IF q.err = "MachineError" THEN log_error(q, tag, attrs) ELSE <<>>

handle_data(p, d) == machine_handle_data(p, d)
\* handle_charref with a fault: the character is handed on as text.
handle_charref_as_data(p, name) == machine_handle_data(p, <<"&">>)

handle_charref(p, name) == p
handle_entityref(p, name) == machine_handle_entityref(p, name)
\* handle_endtag with a fault: the end tag must have the name span.
handle_endtag_of_span(p, tag) ==
  IF tag = "span" THEN machine_handle_endtag(p) ELSE p

handle_endtag(p, tag) == machine_handle_endtag(p)

\* The events of a document, as HTMLParser.feed calls the handlers.
StartTag(tag, attrs) ==
  [kind |-> "starttag", tag |-> tag, attrs |-> attrs, text |-> <<>>, name |-> ""]
Text(d) == [kind |-> "data", tag |-> "", attrs |-> <<>>, text |-> d, name |-> ""]
EntityRef(name) ==
  [kind |-> "entityref", tag |-> "", attrs |-> <<>>, text |-> <<>>, name |-> name]
CharRef(name) ==
  [kind |-> "charref", tag |-> "", attrs |-> <<>>, text |-> <<>>, name |-> name]
EndTag(tag) == [kind |-> "endtag", tag |-> tag, attrs |-> <<>>, text |-> <<>>, name |-> ""]

\* html.unescape on one reference: a numeric reference is its character, a
\* named one the character of the name, and a name that is not known stays
\* as it is written.
charrefs == ("38" :> <<"&">>)

unescape(e) ==
  CASE e.kind = "data" -> e.text
    [] e.kind = "charref" -> IF e.name \in DOMAIN charrefs THEN charrefs[e.name]
                             ELSE <<"&", "#", e.name, ";">>
    [] e.kind = "entityref" -> IF e.name \in DOMAIN entitydefs THEN entitydefs[e.name]
                               ELSE <<"&", e.name, ";">>

\* The parser is made with HTMLParser.__init__(self), which leaves
\* convert_charrefs True: the text between two tags, references and all, is
\* unescaped and goes to handle_data in one call; handle_entityref and
\* handle_charref are not called by feed.
IsText(e) == e.kind \in {"data", "entityref", "charref"}

RECURSIVE Chunks(_)
Chunks(doc) ==
  IF doc = <<>> THEN <<>>
  ELSE IF ~IsText(Head(doc)) THEN <<Head(doc)>> \o Chunks(Tail(doc))
  ELSE IF Len(doc) >= 2 /\ IsText(doc[2])
  THEN Chunks(<<Text(unescape(doc[1]) \o unescape(doc[2]))>>
              \o SubSeq(doc, 3, Len(doc)))
  ELSE <<Text(unescape(Head(doc)))>> \o Chunks(Tail(doc))

\* HTMLParser.goahead on one tag, or on one run of text.
goahead(p, e) ==
  CASE e.kind = "starttag" -> handle_starttag(p, e.tag, e.attrs)
    [] IsText(e) -> handle_data(p, unescape(e))
    [] e.kind = "endtag" -> handle_endtag(p, e.tag)

\* student_records keeps its keys in the order they were made in: q is what
\* a handler has made of p.  A handler makes at most one student record,
\* whose key student_order takes up.
items_order(p, q) ==
  LET made == (DOMAIN q.student_records) \ (DOMAIN p.student_records)
  IN [q EXCEPT !.student_order =
        IF made = {} THEN @ ELSE Append(@, CHOOSE i \in made : TRUE)]

\* One event of feed: its handler.
feed_one(p, e) == items_order(p, goahead(p, e))

\* The handlers in document order; an exception ends the feed.
RECURSIVE feed_all(_, _)
feed_all(p, chunks) ==
  IF chunks = <<>> \/ p.err # "none" THEN p
  ELSE feed_all(feed_one(p, Head(chunks)), Tail(chunks))

\* feed(data)
feed(p, doc) == feed_all(p, Chunks(doc))

\* What handle_starttag's logger is given while goahead hands e to its
\* handler, and while feed hands on a document.
goahead_log(p, e) ==
  IF e.kind = "starttag" THEN handle_starttag_log(p, e.tag, e.attrs) ELSE <<>>

RECURSIVE feed_log(_, _)
feed_log(p, chunks) ==
  IF chunks = <<>> \/ p.err # "none" THEN <<>>
  ELSE goahead_log(p, Head(chunks))
       \o feed_log(feed_one(p, Head(chunks)), Tail(chunks))

\* The files on disk.  Documents are roster pages as event sequences: a field
\* is a span with its key as id, its text and its end tag; a photo is the
\* marker div followed at once by its img.
Field(id, text) ==
  << StartTag("span", <<Attr("id", id)>>), Text(text), EndTag("span") >>
Photo(digits, src) ==
  << StartTag("div", <<Attr("id", PhotoId(digits))>>),
     StartTag("img", <<Attr("src", src)>>), EndTag("div") >>

CodeId == <<"DERIVED_SSR_FC_SSR_CLASSNAME_LONG">>
ProgplanId(digits) == <<"PROGPLAN", "$">> \o digits

TextCode == <<"M", "A", "T", "H">>
TextEmail == <<"j", "d", "@", "n", "y", "u">>
TextProgplan == <<"U", "A", " ", "-", " ", "\n", "M", "a", "t", "h">>
ImgSrc == <<"photo_0.jpg">>

\* A roster of one student with every field and a photo.
DocRoster ==
  Field(CodeId, TextCode) \o Field(DescriptionId, TextABCD)
  \o Field(NameId(<<"0">>), TextDoeJane) \o Field(EmailId(<<"0">>), TextEmail)
  \o Field(ProgplanId(<<"0">>), TextProgplan) \o Photo(<<"0">>, ImgSrc)

\* A page with the course fields and no student.
DocCourse == Field(CodeId, TextCode) \o Field(DescriptionId, TextABCD)

\* A page whose description does not unpack.
DocBroken == Field(DescriptionId, TextDoeJane)

Files ==
  (<<"top", "/", "roster_files", "/", "main.html">> :> DocRoster)
  @@ (<<"roster_files", "/", "main.html">> :> DocRoster)
  @@ (<<"/", "srv", "/", "main.html">> :> DocRoster)
  @@ (<<"top", "/", "other.html">> :> DocCourse)
  @@ (<<"other.html">> :> DocCourse)
  @@ (<<"top", "/", "broken.html">> :> DocBroken)
  @@ (<<"broken.html">> :> DocBroken)

\* The photo files, each with its bytes.
PhotoFiles ==
  (<<"top", "/", "roster_files", "/", "photo_0.jpg">> :> <<"JPEG_A">>)
  @@ (<<"roster_files", "/", "photo_0.jpg">> :> <<"JPEG_B">>)
  @@ (<<"/", "srv", "/", "photo_0.jpg">> :> <<"JPEG_C">>)

\* What student_to_vcard leaves: the exception or the card, and course, which
\* its reads can add keys to.
VcardResult(e, card, course) == [err |-> e, card |-> card, course |-> course]

student_to_vcard(student, course) ==
  IF "name" \notin DOMAIN student THEN VcardResult("KeyError", EmptyDict, course)
  ELSE LET names == split(student["name"], <<",">>)
  IN IF Len(names) # 2 THEN VcardResult("ValueError", EmptyDict, course)
  ELSE IF "email" \notin DOMAIN student THEN VcardResult("KeyError", EmptyDict, course)
  ELSE IF "progplan" \notin DOMAIN student
  THEN VcardResult("KeyError", EmptyDict, course)
  ELSE LET progplan == unpack_progplan(student["progplan"])
  IN IF Len(progplan) # 2 THEN VcardResult("ValueError", EmptyDict, course)
  ELSE LET course1 == Touch(course, "org")
           course2 == Touch(course1, "code")
           course3 == Touch(course2, "term")
           card == [n |-> [family |-> names[1], given |-> names[2]],
                    fn |-> names[2] \o <<" ">> \o names[1],
                    email |-> student["email"],
                    title |-> "Student",
                    org |-> <<course1["org"], progplan[1]>>,
                    x_nyu_progplan |-> progplan[1] \o <<" ", "-", " ">> \o progplan[2],
                    photo |-> IF "photo" \in DOMAIN student
                                 /\ student["photo"] \in DOMAIN PhotoFiles
                              THEN PhotoFiles[student["photo"]] ELSE <<>>,
                    x_ablabel |-> "course",
                    x_abrelatednames |->
                      course3["code"] \o <<",", " ">> \o course3["term"]]
  IN IF "photo" \in DOMAIN student /\ student["photo"] \notin DOMAIN PhotoFiles
     THEN VcardResult("FileNotFoundError", EmptyDict, course1)
     ELSE IF course2["code"] = NewDict THEN VcardResult("TypeError", EmptyDict, course2)
     ELSE IF course3["term"] = NewDict THEN VcardResult("TypeError", EmptyDict, course3)
     ELSE VcardResult("none", card, course3)

\* parse's loop over student_records.items()
RECURSIVE to_vcards(_, _)
to_vcards(p, indices) ==
  IF indices = <<>> THEN p
  ELSE LET r == student_to_vcard(p.student_records[Head(indices)], p.course_data)
       IN IF r.err # "none" THEN [p EXCEPT !.err = r.err, !.course_data = r.course]
          ELSE to_vcards([p EXCEPT !.course_data = r.course,
                                   !.student_vcards = Append(@, r.card)],
                         Tail(indices))

\* AlbertRosterHtmlParser.parse(file), up to feed: open raises for a file
\* that is not there.
parse_open(p, file) ==
  LET p0 == [p EXCEPT !.base_dir = Some(os_path_dirname(file))]
  IN IF file \notin DOMAIN Files THEN Raise(p0, "FileNotFoundError") ELSE p0

\* AlbertRosterHtmlParser.parse(file), after feed
parse_vcards(p) == to_vcards([p EXCEPT !.student_vcards = <<>>], p.student_order)

\* AlbertRosterHtmlParser.parse(file)
parse(p, file) ==
  LET p0 == parse_open(p, file)
  IN IF p0.err # "none" THEN p0
     ELSE LET p1 == feed(p0, Files[file])
          IN IF p1.err # "none" THEN p1 ELSE parse_vcards(p1)

\* ------------------------------------------------ AlbertRosterFramesetParser

\* AlbertRosterFramesetParser(): roster_frame is None, there is no subparser
\* and no base_dir.  pc is the position of parse (and of the subparser's parse
\* inside handle_starttag, at event pos of the frame's document), children
\* counts the AlbertRosterHtmlParser objects made, infile, tag and attrs are
\* the arguments of parse and of the handle_starttag called last, result is
\* what parse returned.
AlbertRosterFramesetParser ==
  [pc |-> "new", base_dir |-> NoneV, roster_frame |-> NoneV,
   subparser |-> [has |-> FALSE, v |-> NewAlbertRosterHtmlParser],
   children |-> 0, err |-> "none", pos |-> 0,
   infile |-> <<>>, ntags |-> 0, tag |-> "", attrs |-> <<>>,
   result |-> [has |-> FALSE, course |-> EmptyDict, students |-> <<>>]]

\* dict(attrs): of two attributes with one name the later one stays.
dict(attrs) ==
  [n \in {attrs[i].name : i \in DOMAIN attrs} |->
     attrs[CHOOSE i \in DOMAIN attrs :
             /\ attrs[i].name = n
             /\ \A j \in DOMAIN attrs : attrs[j].name = n => j <= i].value]

\* handle_starttag with a fault: the frame's src is opened as it is written,
\* not joined with the directory of the top-level document.
Frameset_handle_starttag_src_alone(fs, tag, attrs) ==
  IF fs.roster_frame.has /\ fs.roster_frame.v # <<>> THEN fs
  ELSE LET attr_dict == dict(attrs)
       IN IF ~( /\ tag = "frame" \/ tag = "iframe"
                /\ "name" \in DOMAIN attr_dict
                /\ attr_dict["name"] = Some(<<"TargetContent">>) )
          THEN fs
          ELSE IF "src" \notin DOMAIN attr_dict THEN Raise(fs, "KeyError")
          ELSE IF ~attr_dict["src"].has THEN Raise(fs, "TypeError")
          ELSE LET roster_frame == attr_dict["src"].v
               IN [fs EXCEPT
                     !.roster_frame = Some(roster_frame),
                     !.subparser =
                        [has |-> TRUE,
                         v |-> [NewAlbertRosterHtmlParser EXCEPT
                                  !.base_dir = Some(os_path_dirname(roster_frame))]],
                     !.children = @ + 1,
                     !.pc = "subparser.parse"]

\* handle_starttag with a fault: roster_frame is not looked at, so every
\* TargetContent frame gets a subparser and the last one stays.
Frameset_handle_starttag_every_frame(fs, tag, attrs) ==
  LET attr_dict == dict(attrs)
  IN IF ~( /\ tag = "frame" \/ tag = "iframe"
           /\ "name" \in DOMAIN attr_dict
           /\ attr_dict["name"] = Some(<<"TargetContent">>) )
     THEN fs
     ELSE IF ~fs.base_dir.has THEN Raise(fs, "AttributeError")
     ELSE IF "src" \notin DOMAIN attr_dict THEN Raise(fs, "KeyError")
     ELSE IF ~attr_dict["src"].has THEN Raise(fs, "TypeError")
     ELSE LET roster_frame == os_path_join(fs.base_dir.v, attr_dict["src"].v)
          IN [fs EXCEPT
                !.roster_frame = Some(roster_frame),
                !.subparser =
                   [has |-> TRUE,
                    v |-> [NewAlbertRosterHtmlParser EXCEPT
                             !.base_dir = Some(os_path_dirname(roster_frame))]],
                !.children = @ + 1,
                !.pc = "subparser.parse"]

\* AlbertRosterFramesetParser.handle_starttag(tag, attrs), up to its call of
\* subparser.parse.  A roster_frame that is None or "" is false.  The
\* arguments of os.path.join are evaluated in order: self.base_dir, which a
\* parser that parse was not called on does not have, then attr_dict["src"].
Frameset_handle_starttag(fs, tag, attrs) ==
  IF fs.roster_frame.has /\ fs.roster_frame.v # <<>> THEN fs
  ELSE LET attr_dict == dict(attrs)
       IN IF ~( /\ tag = "frame" \/ tag = "iframe"
                /\ "name" \in DOMAIN attr_dict
                /\ attr_dict["name"] = Some(<<"TargetContent">>) )
          THEN fs
          ELSE IF ~fs.base_dir.has THEN Raise(fs, "AttributeError")
          ELSE IF "src" \notin DOMAIN attr_dict THEN Raise(fs, "KeyError")
          ELSE IF ~attr_dict["src"].has THEN Raise(fs, "TypeError")
          ELSE LET roster_frame == os_path_join(fs.base_dir.v, attr_dict["src"].v)
               IN [fs EXCEPT
                     !.roster_frame = Some(roster_frame),
                     !.subparser =
                        [has |-> TRUE,
                         v |-> [NewAlbertRosterHtmlParser EXCEPT
                                  !.base_dir = Some(os_path_dirname(roster_frame))]],
                     !.children = @ + 1,
                     !.pc = "subparser.parse"]

\* AlbertRosterFramesetParser.parse(infile), up to feed
Frameset_parse(fs, infile) ==
  [fs EXCEPT !.pc = "feeding", !.infile = infile,
             !.base_dir = Some(os_path_dirname(infile))]

\* parse's return with a fault: a parser that found no frame returns an
\* empty course and no students.
Frameset_return_empty(fs) ==
  IF ~fs.subparser.has
  THEN [fs EXCEPT !.pc = "returned",
                  !.result = [has |-> TRUE, course |-> EmptyDict, students |-> <<>>]]
  ELSE [fs EXCEPT !.pc = "returned",
                  !.result = [has |-> TRUE, course |-> fs.subparser.v.course_data,
                              students |-> fs.subparser.v.student_vcards]]

\* parse's return statement: self.subparser is an attribute only a
\* TargetContent frame sets.
Frameset_return(fs) ==
  IF ~fs.subparser.has
  THEN [fs EXCEPT !.pc = "raised", !.err = "AttributeError"]
  ELSE [fs EXCEPT !.pc = "returned",
                  !.result = [has |-> TRUE, course |-> fs.subparser.v.course_data,
                              students |-> fs.subparser.v.student_vcards]]

\* The top-level documents: their paths and their start tags.
Infiles == { <<"top", "/", "index.html">>, <<"index.html">> }

FrameTags == {"frame", "iframe", "frameset"}

TargetContent == Attr("name", <<"TargetContent">>)

FrameAttrs ==
  { << TargetContent, Attr("src", <<"roster_files", "/", "main.html">>) >>,
    << Attr("src", <<"other.html">>), TargetContent >>,
    << Attr("name", <<"nav">>), TargetContent, Attr("src", <<"/", "srv", "/", "main.html">>) >>,
    << TargetContent, Attr("src", <<"broken.html">>) >>,
    << TargetContent, Attr("src", <<"missing.html">>) >>,
    << TargetContent >>,
    << Attr("name", <<"nav">>), Attr("src", <<"other.html">>) >>,
    << Attr("src", <<"roster_files", "/", "main.html">>) >> }

\* ------------------------------------------------------------------ events

Event(kind, tag, attr, text, name) ==
  [kind |-> kind, tag |-> tag, attr |-> attr, text |-> text, name |-> name]

\* The objects after construction.  The parser whose handlers Next calls is
\* at the feed of its parse: base_dir, which __init__ does not make, has been
\* assigned (by parse, or by the frameset parser), and nothing else has.
Init ==
  /\ state = "seeking_key"
  /\ course_data = EmptyDict
  /\ student_records = EmptyDict
  /\ current_key = ""
  /\ current_index = 0
  /\ data = <<>>
  /\ albert_key = Unset
  /\ elem = NoElem
  /\ base_dir \in {Some(d) : d \in BaseDirs}
  /\ err = "none"
  /\ cur_tag = ""
  /\ cur_attrs = <<>>
  /\ nattrs = 0
  /\ nevents = 0
  /\ ev = Event("init", "", NoAttr, <<>>, "")
  /\ open_id = NoneV
  /\ open_dups = 0
  /\ frameset = AlbertRosterFramesetParser
  /\ first_frame = [has |-> FALSE, attrs |-> <<>>]
  /\ roster_parser = [pc |-> "new", p |-> NewAlbertRosterHtmlParser]
  /\ roster = <<>>
  /\ amc = [pc |-> "new", out |-> <<>>, err |-> "none"]
  /\ vcard_amc = [pc |-> "new", cards |-> <<>>, out |-> <<>>, err |-> "none"]
  /\ seeker = [pc |-> "new", was |-> NewAlbertRosterHtmlParser,
               p |-> NewAlbertRosterHtmlParser, tag |-> "", attr |-> NoAttr,
               heard |-> <<>>, endtag |-> ""]
  /\ instances = [heap |-> ClassAttributes, objs |-> <<>>, last |-> 0, nevents |-> 0]
  /\ log = <<>>
  /\ logger = [pc |-> "new", was |-> NewAlbertRosterHtmlParser,
               p |-> NewAlbertRosterHtmlParser, event |-> EndTag("")]
  /\ repeat = [pc |-> "new", key |-> [kind |-> "", id |-> <<>>, field |-> "", index |-> 0],
               value |-> <<>>, was |-> NewAlbertRosterHtmlParser,
               p |-> NewAlbertRosterHtmlParser]

\* The parser's fields become those of p.
Becomes(p) ==
  /\ state' = p.state
  /\ course_data' = p.course_data
  /\ student_records' = p.student_records
  /\ current_key' = p.current_key
  /\ current_index' = p.current_index
  /\ data' = p.data
  /\ albert_key' = p.albert_key
  /\ elem' = p.elem
  /\ err' = p.err

\* No handler runs once an exception has left one, and none runs inside
\* handle_starttag's loop.
Ready == err = "none" /\ cur_tag = "" /\ nevents < MaxEvents

\* handle_starttag(tag, attrs), entered: the loop over attrs begins.
HandleStarttag ==
  /\ Ready
  /\ \E tag \in Tags, attrs \in StartTagAttrs :
       /\ cur_tag' = tag
       /\ cur_attrs' = attrs
       /\ ev' = Event("starttag", tag, NoAttr, <<>>, "")
  /\ nattrs' = 0
  /\ nevents' = nevents + 1
  /\ UNCHANGED <<parser_vars, base_dir, err, open_id, open_dups, log, outside_html>>

\* One turn of handle_starttag's loop: machine_handle_attr(tag, attr) for the
\* next attribute of the list.  A MachineError is raised again, once the
\* logger has been given the three lines of log_error.
HandleAttr ==
  /\ err = "none" /\ cur_tag # "" /\ nattrs < Len(cur_attrs)
  /\ LET attr == cur_attrs[nattrs + 1]
         p == machine_handle_attr(self, cur_tag, attr)
         opens == state = "seeking_key" /\ p.state # "seeking_key"
         again == /\ state \in {"found_course_key", "found_student_key"}
                  /\ attr.value = open_id
     IN /\ Becomes(p)
        /\ ev' = Event("attr", cur_tag, attr, <<>>, "")
        /\ open_id' = IF opens THEN attr.value ELSE open_id
        /\ open_dups' = IF opens THEN 0
                        ELSE IF again THEN open_dups + 1 ELSE open_dups
        /\ log' = IF p.err = "MachineError"
                  THEN log \o log_error(p, cur_tag, cur_attrs) ELSE log
  /\ nattrs' = nattrs + 1
  /\ UNCHANGED <<base_dir, cur_tag, cur_attrs, nevents, outside_html>>

\* The end of handle_starttag, the loop being over: finish_handling_attrs().
FinishAttrs ==
  /\ err = "none" /\ cur_tag # "" /\ nattrs = Len(cur_attrs)
  /\ Becomes(finish_handling_attrs(self))
  /\ ev' = Event("finish", "", NoAttr, <<>>, "")
  /\ cur_tag' = ""
  /\ cur_attrs' = <<>>
  /\ nattrs' = 0
  /\ UNCHANGED <<base_dir, nevents, open_id, open_dups, log, outside_html>>

\* handle_data(data)
HandleData ==
  /\ Ready
  /\ \E d \in Texts :
       /\ Becomes(machine_handle_data(self, d))
       /\ ev' = Event("data", "", NoAttr, d, "")
  /\ nevents' = nevents + 1
  /\ UNCHANGED <<base_dir, cur_tag, cur_attrs, nattrs, open_id, open_dups, log,
                 outside_html>>

\* handle_entityref(name), called as it stands: the feed of a parser made as
\* __init__ makes it unescapes the references itself (goahead).
HandleEntityref ==
  /\ Ready
  /\ \E name \in EntityNames :
       /\ Becomes(machine_handle_entityref(self, name))
       /\ ev' = Event("entityref", "", NoAttr, <<>>, name)
  /\ nevents' = nevents + 1
  /\ UNCHANGED <<base_dir, cur_tag, cur_attrs, nattrs, open_id, open_dups, log,
                 outside_html>>

\* handle_charref(name), called as it stands: logged, nothing else.
HandleCharref ==
  /\ Ready
  /\ \E name \in CharRefNames :
       /\ Becomes(handle_charref(self, name))
       /\ ev' = Event("charref", "", NoAttr, <<>>, name)
  /\ nevents' = nevents + 1
  /\ UNCHANGED <<base_dir, cur_tag, cur_attrs, nattrs, open_id, open_dups, log,
                 outside_html>>

\* handle_endtag(tag): the tag's name is not looked at.
HandleEndtag ==
  /\ Ready
  /\ Becomes(machine_handle_endtag(self))
  /\ \E tag \in Tags : ev' = Event("endtag", tag, NoAttr, <<>>, "")
  /\ nevents' = nevents + 1
  /\ UNCHANGED <<base_dir, cur_tag, cur_attrs, nattrs, open_id, open_dups, log,
                 outside_html>>

Next ==
  \/ HandleStarttag
  \/ HandleAttr
  \/ FinishAttrs
  \/ HandleData
  \/ HandleEntityref
  \/ HandleCharref
  \/ HandleEndtag

Spec == Init /\ [][Next]_vars

\* ------------------------------------- AlbertRosterFramesetParser's parse

\* parse(infile) is called on the new parser.
FramesetParse ==
  /\ frameset.pc = "new"
  /\ \E infile \in Infiles : frameset' = Frameset_parse(frameset, infile)
  /\ UNCHANGED <<outside_frameset, first_frame, log>>

\* An exception leaves parse.
Raised(fs) == IF fs.err # "none" THEN [fs EXCEPT !.pc = "raised"] ELSE fs

\* feed calls handle_starttag(tag, attrs).
FramesetStarttag ==
  /\ frameset.pc = "feeding"
  /\ frameset.ntags < MaxTopTags
  /\ \E tag \in FrameTags, attrs \in FrameAttrs :
       LET named == /\ tag \in {"frame", "iframe"}
                    /\ "name" \in DOMAIN dict(attrs)
                    /\ dict(attrs)["name"] = Some(<<"TargetContent">>)
       IN /\ frameset' =
               Raised([Frameset_handle_starttag(frameset, tag, attrs) EXCEPT
                         !.ntags = @ + 1, !.tag = tag, !.attrs = attrs])
          /\ first_frame' = IF named /\ ~first_frame.has
                            THEN [has |-> TRUE, attrs |-> attrs] ELSE first_frame
  /\ UNCHANGED <<outside_frameset, log>>

\* Inside handle_starttag: subparser.parse(roster_frame) opens the file.
SubparserParse ==
  /\ frameset.pc = "subparser.parse"
  /\ LET p == parse_open(frameset.subparser.v, frameset.roster_frame.v)
     IN frameset' = Raised([frameset EXCEPT !.subparser.v = p, !.err = p.err,
                                            !.pos = 0, !.pc = "subparser.feed"])
  /\ UNCHANGED <<outside_frameset, first_frame, log>>

\* Inside subparser.parse: feed calls the handler of the next event.
SubparserFeed ==
  /\ frameset.pc = "subparser.feed"
  /\ frameset.pos < Len(Chunks(Files[frameset.roster_frame.v]))
  /\ LET e == Chunks(Files[frameset.roster_frame.v])[frameset.pos + 1]
         p == feed_one(frameset.subparser.v, e)
     IN /\ frameset' = Raised([frameset EXCEPT !.subparser.v = p, !.err = p.err,
                                               !.pos = @ + 1])
        /\ log' = log \o goahead_log(frameset.subparser.v, e)
  /\ UNCHANGED <<outside_frameset, first_frame>>

\* Inside subparser.parse: feed is over, the vCards are made, parse and
\* handle_starttag return.
SubparserVcards ==
  /\ frameset.pc = "subparser.feed"
  /\ frameset.pos = Len(Chunks(Files[frameset.roster_frame.v]))
  /\ LET p == parse_vcards(frameset.subparser.v)
     IN frameset' = Raised([frameset EXCEPT !.subparser.v = p, !.err = p.err,
                                            !.pc = "feeding"])
  /\ UNCHANGED <<outside_frameset, first_frame, log>>

\* feed is over: parse returns.
FramesetReturn ==
  /\ frameset.pc = "feeding"
  /\ frameset' = Frameset_return(frameset)
  /\ UNCHANGED <<outside_frameset, first_frame, log>>

NextFrameset ==
  \/ FramesetParse
  \/ FramesetStarttag
  \/ SubparserParse
  \/ SubparserFeed
  \/ SubparserVcards
  \/ FramesetReturn

SpecFrameset == Init /\ [][NextFrameset]_vars

\* ------------------------- AlbertRosterHtmlParser's parse, after its feed

\* Student records as feed leaves them: each of name, email, progplan and
\* photo committed or not, the name with or without its comma, the photo's
\* file there or not.
StudentsFed ==
  { [k \in ks |-> CASE k = "name" -> name
                    [] k = "email" -> TextEmail
                    [] k = "progplan" -> TextProgplan
                    [] k = "photo" -> photo] :
      ks \in (SUBSET {"name", "email", "progplan", "photo"}) \ {{}},
      name \in {TextDoeJane, <<"D", "o", "e">>},
      photo \in { <<"roster_files", "/", "photo_0.jpg">>,
                  <<"roster_files", "/", "photo_9.jpg">> } }

\* The course record after the fields of DocCourse, and the empty one.
CoursesFed ==
  { feed(NewAlbertRosterHtmlParser, DocCourse).course_data, EmptyDict }

\* One record under index 0, or that record and Jane Doe's full record under
\* index 1, in either order of arrival, and the parsing state feed leaves
\* behind.
ParsersFed ==
  LET full == [name |-> TextDoeJane, email |-> TextEmail,
               progplan |-> TextProgplan,
               photo |-> <<"roster_files", "/", "photo_0.jpg">>]
      \* reset_buffers has run after every span that was committed
      spans(course, records) ==
        \/ course # EmptyDict
        \/ \E i \in DOMAIN records : DOMAIN records[i] # {"photo"}
      \* handle_img_src leaves current_index: it is that of the photo when
      \* the page ends with one, and 0 after a span
      last(records) == {0} \cup {i \in DOMAIN records : "photo" \in DOMAIN records[i]}
      fed(course, records) ==
        { [NewAlbertRosterHtmlParser EXCEPT
             !.base_dir = Some(<<"roster_files">>), !.course_data = course,
             !.student_records = records, !.student_order = order,
             !.albert_key = IF spans(course, records)
                            THEN [kind |-> "None", v |-> <<>>] ELSE Unset,
             !.current_index = index] :
            index \in last(records), order \in { <<0>>, <<0, 1>>, <<1, 0>> } }
  IN UNION { fed(course, records) :
               course \in CoursesFed,
               records \in { (0 :> student) : student \in StudentsFed }
                           \cup { (0 :> student) @@ (1 :> full) :
                                    student \in StudentsFed } }

\* parse(file) on a new parser, up to the end of feed.
Fed ==
  /\ roster_parser.pc = "new"
  /\ \E p \in ParsersFed :
       /\ Len(p.student_order) = Cardinality(DOMAIN p.student_records)
       /\ roster_parser' = [pc |-> "fed", p |-> p]
  /\ UNCHANGED outside_roster_parser

\* The rest of parse: a vCard of every student record, and the return.
Vcards ==
  /\ roster_parser.pc = "fed"
  /\ LET p == parse_vcards(roster_parser.p)
     IN roster_parser' = [pc |-> IF p.err = "none" THEN "returned" ELSE "raised",
                          p |-> p]
  /\ UNCHANGED outside_roster_parser

NextVcards ==
  \/ Fed
  \/ Vcards

SpecVcards == Init /\ [][NextVcards]_vars

\* ------------------------------------------------- the writers and ps.xls

\* AmcCsvWriter.fieldnames and VcardAmcCsvWriter.fieldnames, and their text
fieldnames == <<"Campus ID", "surname", "name", "NetID", "email", "id">>

FieldText(k) == IF k = "Campus ID" THEN <<"Campus", " ", "ID">> ELSE <<k>>

\* csv.writer with the excel dialect: a field that holds the delimiter, the
\* quote character or a character of the line terminator is quoted, its quote
\* characters doubled; the fields are joined by commas; the line ends in \r\n.
NeedsQuote(s) == \E i \in DOMAIN s : s[i] \in {",", "\"", "\r", "\n"}

RECURSIVE DoubleQuotes(_)
DoubleQuotes(s) ==
  IF s = <<>> THEN <<>>
  ELSE (IF Head(s) = "\"" THEN <<"\"", "\"">> ELSE <<Head(s)>>) \o DoubleQuotes(Tail(s))

csv_field(s) == IF NeedsQuote(s) THEN <<"\"">> \o DoubleQuotes(s) \o <<"\"">> ELSE s

RECURSIVE csv_join(_)
csv_join(fields) ==
  IF Len(fields) = 1 THEN csv_field(fields[1])
  ELSE csv_field(Head(fields)) \o <<",">> \o csv_join(Tail(fields))

\* DictWriter.writerow(row): the values in the order of fieldnames
writerow(row) ==
  csv_join([i \in 1..Len(fieldnames) |-> row[fieldnames[i]]]) \o <<"\r", "\n">>

\* DictWriter.writeheader()
writeheader ==
  writerow([k \in {fieldnames[i] : i \in 1..Len(fieldnames)} |-> FieldText(k)])

\* s.replace("N", "")
replace_N(s) == SelectSeq(s, LAMBDA c : c # "N")

RowResult(e, row) == [err |-> e, row |-> row]

\* The body of AmcCsvWriter.write's loop with a fault: id is the Campus ID
\* without its first character, not without its letters N.
AmcCsvWriter_row_first_N(student) ==
  LET email == split(student["Email Address"], <<"@">>)
      name == split(student["Name"], <<",">>)
  IN IF Len(email) # 2 \/ Len(name) # 2 THEN RowResult("ValueError", EmptyDict)
     ELSE RowResult("none",
            ("Campus ID" :> student["Campus ID"]) @@ ("surname" :> name[1])
            @@ ("name" :> name[2]) @@ ("NetID" :> email[1])
            @@ ("email" :> student["Email Address"])
            @@ ("id" :> Tail(student["Campus ID"])))

\* The body of AmcCsvWriter.write's loop, up to writerow: the row, or the
\* exception of an unpacking.
AmcCsvWriter_row(student) ==
  LET email == split(student["Email Address"], <<"@">>)
      name == split(student["Name"], <<",">>)
  IN IF Len(email) # 2 \/ Len(name) # 2 THEN RowResult("ValueError", EmptyDict)
     ELSE RowResult("none",
            ("Campus ID" :> student["Campus ID"]) @@ ("surname" :> name[1])
            @@ ("name" :> name[2]) @@ ("NetID" :> email[1])
            @@ ("email" :> student["Email Address"])
            @@ ("id" :> replace_N(student["Campus ID"])))

\* int(s) raises for a string that is not a number; the rosters here write
\* numbers in digits alone.
IsDecimal(s) == s # <<>> /\ \A i \in DOMAIN s : s[i] \in Digits

\* "%d" % n and "%03d" % n
RECURSIVE FormatD(_)
FormatD(n) ==
  LET d == CHOOSE c \in Digits : DigitValue(c) = n % 10
  IN IF n < 10 THEN <<d>> ELSE Append(FormatD(n \div 10), d)

RECURSIVE ZeroPad(_, _)
ZeroPad(s, width) == IF Len(s) >= width THEN s ELSE ZeroPad(<<"0">> \o s, width)

\* AlbertRosterXlsParser.student_to_vcard(student)
Xls_student_to_vcard(student) ==
  LET name == split(student["Name"], <<",">>)
      progplan == unpack_progplan(student["Program and Plan"])
  IN IF Len(name) # 2 \/ Len(progplan) # 2
        \/ ~IsDecimal(student["Catalog"]) \/ ~IsDecimal(student["Section"])
     THEN [err |-> "ValueError", card |-> EmptyDict]
     ELSE [err |-> "none",
           card |-> [n |-> [family |-> name[1], given |-> name[2]],
                     fn |-> name[2] \o <<" ">> \o name[1],
                     email |-> student["Email Address"],
                     title |-> "Student",
                     org |-> <<"New York University", progplan[1]>>,
                     x_nyu_progplan |-> progplan[1] \o <<" ", "-", " ">> \o progplan[2],
                     x_nyu_nnumber |-> student["Campus ID"],
                     x_ablabel |-> "course",
                     x_abrelatednames |->
                       student["Subject"] \o <<" ">>
                       \o FormatD(int(student["Catalog"])) \o <<" ", "-", " ">>
                       \o ZeroPad(FormatD(int(student["Section"])), 3)]]

\* AlbertRosterXlsParser.parse's loop over the rows: the cards, or the
\* exception of the first row that has one.
RECURSIVE Xls_parse(_, _)
Xls_parse(rows, cards) ==
  IF rows = <<>> THEN [err |-> "none", cards |-> cards]
  ELSE LET r == Xls_student_to_vcard(Head(rows))
       IN IF r.err # "none" THEN [err |-> r.err, cards |-> cards]
          ELSE Xls_parse(Tail(rows), Append(cards, r.card))

\* The body of VcardAmcCsvWriter.write's loop with a fault: surname and name
\* both take the family name.
VcardAmcCsvWriter_row_family_twice(student) ==
  LET email == split(student.email, <<"@">>)
  IN IF Len(email) # 2 THEN RowResult("ValueError", EmptyDict)
     ELSE RowResult("none",
            ("Campus ID" :> student.x_nyu_nnumber) @@ ("surname" :> student.n.family)
            @@ ("name" :> student.n.family) @@ ("NetID" :> email[1])
            @@ ("email" :> student.email)
            @@ ("id" :> replace_N(student.x_nyu_nnumber)))

\* The body of VcardAmcCsvWriter.write's loop, up to writerow
VcardAmcCsvWriter_row(student) ==
  LET email == split(student.email, <<"@">>)
  IN IF Len(email) # 2 THEN RowResult("ValueError", EmptyDict)
     ELSE RowResult("none",
            ("Campus ID" :> student.x_nyu_nnumber) @@ ("surname" :> student.n.family)
            @@ ("name" :> student.n.given) @@ ("NetID" :> email[1])
            @@ ("email" :> student.email)
            @@ ("id" :> replace_N(student.x_nyu_nnumber)))

\* VcardAmcCsvWriter.write's loop over the cards, after writeheader
RECURSIVE VcardAmcCsvWriter_write(_, _)
VcardAmcCsvWriter_write(students, out) ==
  IF students = <<>> THEN [err |-> "none", out |-> out]
  ELSE LET r == VcardAmcCsvWriter_row(Head(students))
       IN IF r.err # "none" THEN [err |-> r.err, out |-> out]
          ELSE VcardAmcCsvWriter_write(Tail(students), Append(out, writerow(r.row)))

\* The rows of a roster: a row of ps.csv, of ps.xls.
Row(campus_id, name, email, progplan, catalog) ==
  ("Campus ID" :> campus_id) @@ ("Name" :> name) @@ ("Email Address" :> email)
  @@ ("Program and Plan" :> progplan) @@ ("Subject" :> <<"MATH-UA">>)
  @@ ("Catalog" :> catalog) @@ ("Section" :> <<"1">>)

N12 == <<"N", "1", "2">>
Catalog == <<"1", "2", "1">>

\* Two rows with nothing wrong (one with two letters N in its Campus ID and a
\* quote in its given name), and rows with one thing wrong each: a name
\* without comma, an address without @ and with two, a program and plan in
\* one piece, a catalog number that is none.
RosterRows ==
  { Row(N12, TextDoeJane, TextEmail, TextProgplan, Catalog),
    Row(<<"N", "3", "N", "4">>, <<"R", "o", "e", ",", "J", "\"", "o">>,
        <<"r", "@", "n", "y", "u">>, TextProgplan, Catalog),
    Row(N12, <<"D", "o", "e">>, TextEmail, TextProgplan, Catalog),
    Row(N12, TextDoeJane, <<"j", "d">>, TextProgplan, Catalog),
    Row(N12, TextDoeJane, <<"j", "@", "d", "@", "n">>, TextProgplan, Catalog),
    Row(N12, TextDoeJane, TextEmail, <<"U", "A">>, Catalog),
    Row(N12, TextDoeJane, TextEmail, TextProgplan, <<"X">>) }

\* AmcCsvWriter.write(students): writeheader()
AmcWriteHeader ==
  /\ amc.pc = "new"
  /\ amc' = [amc EXCEPT !.pc = "rows", !.out = Append(@, writeheader)]
  /\ UNCHANGED <<outside_writers, roster, vcard_amc>>

\* One turn of write's loop: the reader gives the next student of the roster.
AmcWriteRow ==
  /\ amc.pc = "rows"
  /\ Len(roster) < MaxRows
  /\ \E student \in RosterRows :
       LET r == AmcCsvWriter_row(student)
       IN /\ roster' = Append(roster, student)
          /\ amc' = IF r.err # "none"
                    THEN [amc EXCEPT !.pc = "raised", !.err = r.err]
                    ELSE [amc EXCEPT !.out = Append(@, writerow(r.row))]
  /\ UNCHANGED <<outside_writers, vcard_amc>>

\* The roster has no more students: write returns.
AmcReturn ==
  /\ amc.pc = "rows"
  /\ amc' = [amc EXCEPT !.pc = "returned"]
  /\ UNCHANGED <<outside_writers, roster, vcard_amc>>

\* AlbertRosterXlsParser.parse on the same roster: a vCard of every row.
XlsParse ==
  /\ amc.pc \in {"returned", "raised"}
  /\ vcard_amc.pc = "new"
  /\ LET r == Xls_parse(roster, <<>>)
     IN vcard_amc' = [vcard_amc EXCEPT
                        !.pc = IF r.err # "none" THEN "raised" ELSE "parsed",
                        !.err = r.err, !.cards = r.cards]
  /\ UNCHANGED <<outside_writers, roster, amc>>

\* VcardAmcCsvWriter.write(students) on the parser's cards
VcardAmcWrite ==
  /\ vcard_amc.pc = "parsed"
  /\ LET r == VcardAmcCsvWriter_write(vcard_amc.cards, <<writeheader>>)
     IN vcard_amc' = [vcard_amc EXCEPT
                        !.pc = IF r.err # "none" THEN "raised" ELSE "returned",
                        !.err = r.err, !.out = r.out]
  /\ UNCHANGED <<outside_writers, roster, amc>>

NextWriters ==
  \/ AmcWriteHeader
  \/ AmcWriteRow
  \/ AmcReturn
  \/ XlsParse
  \/ VcardAmcWrite

SpecWriters == Init /\ [][NextWriters]_vars

\* ------------------------------------------------------------ vocabulary

\* ------------------------------------ several AlbertRosterHtmlParsers

\* The events the instances are given.
InstanceEvents ==
  { StartTag("span", <<Attr("id", NameId(<<"0">>))>>),
    StartTag("span", <<Attr("id", DescriptionId)>>),
    Text(TextABCD), EndTag("span"),
    StartTag("div", <<Attr("id", PhotoId(<<"1">>))>>),
    StartTag("img", <<Attr("src", ImgSrc)>>) }

\* __init__ with a fault: course_data and student_records are made once, for
\* the class, and every instance refers to those two.
AlbertRosterHtmlParser_init_of_class(heap) ==
  [heap |-> IF Len(heap) = Len(ClassAttributes) THEN heap \o <<EmptyDict, EmptyDict>>
            ELSE heap,
   self |-> [NewAlbertRosterHtmlParser EXCEPT
               !.course_data = Len(ClassAttributes) + 1,
               !.student_records = Len(ClassAttributes) + 2]]

\* AlbertRosterHtmlParser(): __init__ makes two dicts with defaultdict(dict),
\* new objects at new addresses, and self refers to them.
AlbertRosterHtmlParser_init(heap) ==
  [heap |-> heap \o <<EmptyDict, EmptyDict>>,
   self |-> [NewAlbertRosterHtmlParser EXCEPT
               !.course_data = Len(heap) + 1,
               !.student_records = Len(heap) + 2]]

\* The attributes of self as its methods read them: the dicts are those its
\* references point at.
getattr(heap, obj) ==
  [obj EXCEPT !.course_data = heap[@], !.student_records = heap[@]]

\* What a method that has made p of self's attributes leaves: the handlers
\* write into the two dicts where they are, and assign every other
\* attribute to self.
setattr(heap, obj, p) ==
  [heap |-> [heap EXCEPT ![obj.course_data] = p.course_data,
                         ![obj.student_records] = p.student_records],
   self |-> [p EXCEPT !.course_data = obj.course_data,
                      !.student_records = obj.student_records]]

\* AlbertRosterHtmlParser(): by the caller, or by a frameset parser for its
\* child.
InstanceInit ==
  /\ Len(instances.objs) < MaxInstances
  /\ LET made == AlbertRosterHtmlParser_init(instances.heap)
     IN instances' = [instances EXCEPT !.heap = made.heap,
                                       !.objs = Append(@, made.self),
                                       !.last = 0]
  /\ UNCHANGED <<outside_instances, log>>

\* parse(file) of one instance, up to feed: base_dir is assigned.
InstanceParse ==
  /\ \E i \in DOMAIN instances.objs :
       LET self_i == getattr(instances.heap, instances.objs[i])
           left == setattr(instances.heap, instances.objs[i],
                           parse_open(self_i, <<"roster_files", "/", "main.html">>))
       IN /\ ~self_i.base_dir.has
          /\ self_i.err = "none"
          /\ instances' = [instances EXCEPT !.heap = left.heap,
                                            !.objs[i] = left.self,
                                            !.last = i]
  /\ UNCHANGED <<outside_instances, log>>

\* One event of the feed of one instance, inside parse or called as it is.
\* A start tag that raises MachineError gives its three lines to the logger
\* of handle_starttag, which logging.getLogger finds under its name: one
\* object, whichever instance calls.
InstanceFeed ==
  /\ instances.nevents < MaxInstanceEvents
  /\ \E i \in DOMAIN instances.objs, e \in InstanceEvents :
       LET self_i == getattr(instances.heap, instances.objs[i])
           left == setattr(instances.heap, instances.objs[i], feed_one(self_i, e))
       IN /\ self_i.err = "none"
          /\ instances' = [instances EXCEPT !.heap = left.heap,
                                            !.objs[i] = left.self,
                                            !.last = i,
                                            !.nevents = @ + 1]
          /\ log' = log \o goahead_log(self_i, e)
  /\ UNCHANGED outside_instances

NextInstances ==
  \/ InstanceInit
  \/ InstanceParse
  \/ InstanceFeed

SpecInstances == Init /\ [][NextInstances]_vars

\* ------------------------------------------ what handle_starttag logs

\* Parsers in each state an event may find one in: seeking_key,
\* seeking_course_data, seeking_student_data with text buffered, and
\* seeking_student_image.
LogParsers ==
  LET new == [NewAlbertRosterHtmlParser EXCEPT !.base_dir = Some(<<"roster_files">>)]
  IN { new,
       feed(new, <<StartTag("span", <<Attr("id", DescriptionId)>>)>>),
       feed(new, <<StartTag("span", <<Attr("id", NameId(<<"0">>))>>), Text(TextDoeJane)>>),
       feed(new, <<StartTag("div", <<Attr("id", PhotoId(<<"0">>))>>)>>) }

\* feed has brought the parser to one of these states.
LoggerFed ==
  /\ logger.pc = "new"
  /\ \E q \in LogParsers :
       logger' = [logger EXCEPT !.pc = "fed", !.was = q, !.p = q]
  /\ UNCHANGED <<outside_logger, log>>

\* handle_starttag(tag, attrs), whole: the loop, what the except clause logs,
\* and finish_handling_attrs.
LoggerStarttag ==
  /\ logger.pc = "fed"
  /\ \E tag \in Tags, attrs \in AttrLists(MaxAttrs) :
       /\ logger' = [pc |-> "handled", was |-> logger.p,
                  p |-> items_order(logger.p, handle_starttag(logger.p, tag, attrs)),
                  event |-> StartTag(tag, attrs)]
       /\ log' = log \o handle_starttag_log(logger.p, tag, attrs)
  /\ UNCHANGED outside_logger

\* handle_data(data): nothing is logged.
LoggerData ==
  /\ logger.pc = "fed"
  /\ \E d \in Texts :
       logger' = [logger EXCEPT !.pc = "handled", !.was = logger.p,
                                !.p = items_order(logger.p, handle_data(logger.p, d)),
                                !.event = Text(d)]
  /\ UNCHANGED <<outside_logger, log>>

\* handle_endtag(tag): nothing is logged.
LoggerEndtag ==
  /\ logger.pc = "fed"
  /\ \E tag \in Tags :
       logger' = [logger EXCEPT !.pc = "handled", !.was = logger.p,
                                !.p = items_order(logger.p, handle_endtag(logger.p, tag)),
                                !.event = EndTag(tag)]
  /\ UNCHANGED <<outside_logger, log>>

NextLogger ==
  \/ LoggerFed
  \/ LoggerStarttag
  \/ LoggerData
  \/ LoggerEndtag

SpecLogger == Init /\ [][NextLogger]_vars

\* ------------------------------------------- the same key, committed twice

\* The keys a page may repeat: every course key, every student key and the
\* photo marker with the index of one of two students.
RepeatDigits == {"0", "1"}

RepeatKeys ==
  { [kind |-> "course", id |-> k, field |-> course_keys_dict[k], index |-> 0] :
      k \in DOMAIN course_keys_dict }
  \cup { [kind |-> "student", id |-> k \o <<"$", d>>, field |-> student_keys_dict[k],
          index |-> int(<<d>>)] : k \in DOMAIN student_keys_dict, d \in RepeatDigits }
  \cup { [kind |-> "photo", id |-> PhotoId(<<d>>), field |-> "photo",
          index |-> int(<<d>>)] : d \in RepeatDigits }

\* What the page gives for a key: a field's text, a photo's src.
TextEFGH == <<"E", " ", "|", " ", "F", " ", "|", " ", "G", " ", "|", " ", "H">>

RepeatValues(key) ==
  CASE key.kind = "photo" -> { <<"p1.jpg">>, <<"p2.jpg">> }
    [] key.field = "description" -> { TextABCD, TextEFGH, TextDoeJane }
    [] OTHER -> { TextDoeJane, TextCode }

\* The events that commit value under key.
Commit(key, value) ==
  IF key.kind = "photo"
  THEN << StartTag("div", <<Attr("id", key.id)>>),
          StartTag("img", <<Attr("src", value)>>) >>
  ELSE Field(key.id, value)

\* The parsers the page is fed to: a new one, and one that holds entries of
\* the course and of both students already.
RepeatParsers ==
  LET new == [NewAlbertRosterHtmlParser EXCEPT !.base_dir = Some(<<"roster_files">>)]
  IN { new,
       feed(new, Field(CodeId, TextCode) \o Field(EmailId(<<"0">>), TextEmail)
                 \o Photo(<<"1">>, ImgSrc)) }

\* feed, up to the first commit under a key.
RepeatFirst ==
  /\ repeat.pc = "new"
  /\ \E q \in RepeatParsers, key \in RepeatKeys :
       \E value \in RepeatValues(key) :
         /\ repeat' = [pc |-> "once", key |-> key, value |-> value, was |-> q,
                       p |-> feed(q, Commit(key, value))]
         /\ log' = log \o feed_log(q, Chunks(Commit(key, value)))
  /\ UNCHANGED outside_repeat

\* feed, from there to the next commit under the same key.
RepeatAgain ==
  /\ repeat.pc = "once"
  /\ repeat.p.err = "none"
  /\ \E value \in RepeatValues(repeat.key) :
       /\ repeat' = [repeat EXCEPT !.pc = "twice", !.value = value, !.was = repeat.p,
                                   !.p = feed(repeat.p, Commit(repeat.key, value))]
       /\ log' = log \o feed_log(repeat.p, Chunks(Commit(repeat.key, value)))
  /\ UNCHANGED outside_repeat

NextRepeat ==
  \/ RepeatFirst
  \/ RepeatAgain

SpecRepeat == Init /\ [][NextRepeat]_vars

\* ----------------------------- machine_handle_attr in seeking_key, alone

\* The values an attribute may carry: course keys, one of them of the shape
\* base$digits; student keys and the photo marker with an index, without
\* one, with an empty one, and with text after it; the shape with a base
\* the registry does not hold; and the same with a line end after the digits.
KeyValues ==
  { DescriptionId, InstructorId, <<"MTG_INSTR", "$", "1">>,
    NameId(<<"0">>), EmailId(<<"0", "1">>), <<"PROGPLAN1", "$", "2">>,
    PhotoId(<<"1">>),
    <<"SCC_PRFPRIMNMVW_NAME">>, NameId(<<>>), NameId(<<"0", "x">>),
    photo_key, <<"$", "5">>, <<"win0divPAGECONTAINER", "$", "1">>,
    Append(InstructorId, "\n"), Append(NameId(<<"0">>), "\n"),
    Append(PhotoId(<<"1">>), "\n"), Append(DescriptionId, "\n") }

KeyAttrs ==
  { Attr(n, v) : n \in {"id", "name"}, v \in KeyValues }
  \cup { [name |-> "nowrap", value |-> NoneV] }

\* Parsers whose machine is in seeking_key: a new one, one that has
\* committed a student's name and the course code, one that has stored the
\* photo of student 1.
SeekingParsers ==
  LET new == [NewAlbertRosterHtmlParser EXCEPT !.base_dir = Some(<<"roster_files">>)]
  IN { new,
       feed(new, Field(NameId(<<"0">>), TextDoeJane) \o Field(CodeId, TextCode)),
       feed(new, Photo(<<"1">>, ImgSrc)) }

\* feed has brought the parser to seeking_key.
SeekerFed ==
  /\ seeker.pc = "new"
  /\ \E q \in SeekingParsers :
       seeker' = [seeker EXCEPT !.pc = "seeking_key", !.was = q, !.p = q]
  /\ UNCHANGED <<outside_seeker, log>>

\* machine_handle_attr(tag, attr), as handle_starttag calls it for the first
\* attribute of a start tag.  The trigger is valid in seeking_key: no
\* MachineError is raised there, and nothing is logged.
SeekerAttr ==
  /\ seeker.pc = "seeking_key"
  /\ \E tag \in Tags, attr \in KeyAttrs :
       seeker' = [pc |-> "handled", was |-> seeker.p,
                  p |-> items_order(seeker.p, machine_handle_attr(seeker.p, tag, attr)),
                  tag |-> tag, attr |-> attr, heard |-> <<>>, endtag |-> ""]
  /\ UNCHANGED <<outside_seeker, log>>

\* The end of handle_starttag for a tag of one attribute.
SeekerFinish ==
  /\ seeker.pc = "handled"
  /\ seeker.p.err = "none"
  /\ seeker' = [seeker EXCEPT !.pc = "finished", !.was = seeker.p,
                              !.p = items_order(seeker.p,
                                                finish_handling_attrs(seeker.p))]
  /\ UNCHANGED <<outside_seeker, log>>

\* handle_data(data), for the text that follows the start tag, if any does.
SeekerData ==
  /\ seeker.pc = "finished"
  /\ seeker.p.err = "none"
  /\ \E d \in Texts :
       seeker' = [seeker EXCEPT !.pc = "heard", !.was = seeker.p,
                                !.p = items_order(seeker.p, handle_data(seeker.p, d)),
                                !.heard = d]
  /\ UNCHANGED <<outside_seeker, log>>

\* The names an end tag may have: those of the start tags, and another.
EndTags == Tags \cup {"td"}

\* handle_endtag(tag), for the first end tag after the start tag.
SeekerEndtag ==
  /\ seeker.pc \in {"finished", "heard"}
  /\ seeker.p.err = "none"
  /\ \E tag \in EndTags :
       seeker' = [seeker EXCEPT !.pc = "ended", !.was = seeker.p,
                                !.p = items_order(seeker.p,
                                                  handle_endtag(seeker.p, tag)),
                                !.endtag = tag]
  /\ UNCHANGED <<outside_seeker, log>>

NextSeeker ==
  \/ SeekerFed
  \/ SeekerAttr
  \/ SeekerFinish
  \/ SeekerData
  \/ SeekerEndtag

SpecSeeker == Init /\ [][NextSeeker]_vars


Capturing == state \in {"seeking_course_data", "seeking_student_data"}

\* The step is one call of the handler named.
AttrStep == nattrs' = nattrs + 1 /\ ev'.kind = "attr"
FinishStep == cur_tag # "" /\ cur_tag' = ""
DataStep == nevents' = nevents + 1 /\ ev'.kind = "data"
EntityrefStep == nevents' = nevents + 1 /\ ev'.kind = "entityref"
EndtagStep == nevents' = nevents + 1 /\ ev'.kind = "endtag"

\* The identifier shapes of the key registry: v is base$index, index a
\* non-empty run of digits.
HasShape(v, base) ==
  /\ Len(v) > Len(base) + 1
  /\ SubSeq(v, 1, Len(base)) = base
  /\ v[Len(base) + 1] = "$"
  /\ \A j \in (Len(base) + 2)..Len(v) : v[j] \in Digits

IndexIn(v, base) == int(SubSeq(v, Len(base) + 2, Len(v)))

IsCourseId(v) == v \in DOMAIN course_keys_dict
IsStudentId(v) == \E b \in DOMAIN student_keys_dict : HasShape(v, b)
IsPhotoId(v) == HasShape(v, photo_key)
StudentBase(v) == CHOOSE b \in DOMAIN student_keys_dict : HasShape(v, b)

RecognizedKey(attr) ==
  /\ attr.name = "id"
  /\ attr.value.has
  /\ IsCourseId(attr.value.v) \/ IsStudentId(attr.value.v) \/ IsPhotoId(attr.value.v)

Unpacked == {"term", "session", "org", "level"}

\* d holds value v under key k
Holds(d, k, v) == k \in DOMAIN d /\ d[k] = v

\* d2 is d1 but for the entries under the keys in ks
SameBut(d1, d2, ks) ==
  /\ (DOMAIN d1) \ ks = (DOMAIN d2) \ ks
  /\ \A k \in (DOMAIN d1) \ ks : d2[k] = d1[k]

\* ------------------------------------------------------------------ claims

\* C1.  A stream in which no id attribute is a recognized key is processed
\* without error, the machine stays in seeking_key and both records stay
\* empty.  Stated per event: as long as nothing has been recognized (the
\* machine is in seeking_key with empty records), an event that is not an id
\* attribute with a recognized key raises nothing and leaves machine and
\* records as they are.
C1_NoKeyNoError ==
  [][ ( /\ state = "seeking_key" /\ err = "none"
        /\ course_data = EmptyDict /\ student_records = EmptyDict
        /\ ~(AttrStep /\ RecognizedKey(ev'.attr)) )
      => ( /\ err' = "none" /\ state' = "seeking_key"
           /\ course_data' = EmptyDict /\ student_records' = EmptyDict ) ]_vars

\* C2.  A student field committed from an identifier base$i is stored in
\* student_records[i] and in no other record: whenever student_records
\* changes, the identifier that opened the capture is base$i for a student
\* key (or the photo marker), record i holds the field's text, and every
\* other record is what it was.
C2_CommitLandsInOwnRecord ==
  [][ student_records' # student_records
      => /\ open_id.has
         /\ \E b \in (DOMAIN student_keys_dict) \cup {photo_key} :
              /\ HasShape(open_id.v, b)
              /\ LET i == IndexIn(open_id.v, b)
                 IN /\ i \in DOMAIN student_records'
                    /\ SameBut(student_records, student_records', {i})
                    /\ b # photo_key
                         => Holds(student_records'[i], student_keys_dict[b], data) ]_vars

\* Two indices hold a record each; the last commit came from an identifier
\* whose index is written 01.
C2_Witness ==
  /\ ev.kind = "endtag"
  /\ open_id = Some(EmailId(<<"0", "1">>))
  /\ DOMAIN student_records = {0, 1}
  /\ "name" \in DOMAIN student_records[0]
  /\ DOMAIN student_records[1] = {"email"}

\* C3.  A start tag that carries the same key in two attributes raises no
\* error: an attribute that is not id matches nothing, and an attribute that
\* follows the match with the same value changes nothing.  The capture the tag
\* opened changes the records only at its end tag, which stores the buffered
\* text once, under that key.
C3_DuplicateKeyAttribute ==
  [][ /\ ( /\ state = "seeking_key" /\ err = "none" /\ AttrStep
           /\ ev'.attr.name # "id" /\ ev'.attr.value.has )
         => ( /\ err' = "none" /\ state' = "seeking_key"
              /\ UNCHANGED <<course_data, student_records, current_key,
                             current_index, data>> )
      /\ ( /\ state \in {"found_course_key", "found_student_key"}
           /\ AttrStep /\ ev'.attr.value = open_id )
         => ( /\ err' = "none" /\ state' = state
              /\ UNCHANGED <<course_data, student_records, current_key,
                             current_index, data>> )
      /\ (open_dups >= 1 /\ state # "seeking_key" /\ ~EndtagStep)
         => UNCHANGED <<course_data, student_records>>
      /\ (open_dups >= 1 /\ state = "seeking_course_data" /\ EndtagStep)
         => ( /\ IsCourseId(open_id.v)
              /\ Holds(course_data', course_keys_dict[open_id.v], data)
              /\ SameBut(course_data, course_data',
                         {course_keys_dict[open_id.v]} \cup Unpacked)
              /\ student_records' = student_records )
      /\ (open_dups >= 1 /\ state = "seeking_student_data" /\ EndtagStep)
         => ( /\ IsStudentId(open_id.v)
              /\ LET b == StudentBase(open_id.v)
                     i == IndexIn(open_id.v, b)
                 IN student_records' =
                      DictSet(student_records, i,
                              DictSet(RecordOf(student_records, i),
                                      student_keys_dict[b], data))
              /\ course_data' = course_data ) ]_vars

\* An end tag has committed the text of a field whose start tag carried its
\* key twice.
C3_Witness ==
  /\ ev.kind = "endtag" /\ state = "seeking_key" /\ err = "none"
  /\ open_dups >= 1
  /\ open_id = Some(InstructorId)
  /\ Holds(course_data, "instructor", TextDoeJane)

\* C4.  Committing the course description "A | B | C | D" leaves the raw text
\* under description and term=A, session=B, org=C, level=D.
C4_DescriptionUnpacked ==
  [][ ( /\ state = "seeking_course_data" /\ open_id = Some(DescriptionId)
        /\ data = TextABCD /\ EndtagStep )
      => ( /\ err' = "none" /\ state' = "seeking_key"
           /\ Holds(course_data', "description", TextABCD)
           /\ Holds(course_data', "term", <<"A">>)
           /\ Holds(course_data', "session", <<"B">>)
           /\ Holds(course_data', "org", <<"C">>)
           /\ Holds(course_data', "level", <<"D">>) ) ]_vars

C4_Witness ==
  /\ ev.kind = "endtag" /\ state = "seeking_key"
  /\ open_id = Some(DescriptionId)
  /\ Holds(course_data, "description", TextABCD)
  /\ Holds(course_data, "level", <<"D">>)

\* C5.  Committing a course description that does not split on " | " into
\* exactly four components ends the end-tag event in an error (the parse does
\* not go on to return a result), and term, session, org and level are what
\* they were before.
C5_BadDescriptionRaises ==
  [][ ( /\ state = "seeking_course_data" /\ open_id = Some(DescriptionId)
        /\ Len(split(data, <<" ", "|", " ">>)) # 4 /\ EndtagStep )
      => ( /\ err' = "ValueError"
           /\ SameBut(course_data, course_data', {"description"}) ) ]_vars

\* A description of seven components ("A | B | C | DA | B | C | D") has raised.
C5_Witness ==
  /\ ev.kind = "endtag" /\ err = "ValueError"
  /\ Holds(course_data, "description", TextABCD \o TextABCD)
  /\ Unpacked \cap DOMAIN course_data = {}

\* C6.  In seeking_student_image, entered by the photo marker of index i, an
\* img start tag's src=s stores base_dir joined with the raw s under photo in
\* student_records[i], keeps the record's other fields, and returns the
\* machine to seeking_key.
C6_PhotoStored ==
  [][ ( /\ state = "seeking_student_image" /\ open_id.has
        /\ IsPhotoId(open_id.v)
        /\ AttrStep /\ cur_tag = "img"
        /\ ev'.attr.name = "src" /\ ev'.attr.value.has )
      => LET i == IndexIn(open_id.v, photo_key)
             s == ev'.attr.value.v
         IN /\ err' = "none" /\ state' = "seeking_key"
            /\ student_records' =
                 DictSet(student_records, i,
                         DictSet(RecordOf(student_records, i), "photo",
                                 os_path_join(base_dir.v, s))) ]_vars

\* Record 0 holds a committed name and the photo whose src has a query string.
C6_Witness ==
  /\ ev.kind = "attr" /\ state = "seeking_key" /\ err = "none"
  /\ 0 \in DOMAIN student_records
  /\ Holds(student_records[0], "name", TextDoeJane)
  /\ Holds(student_records[0], "photo", <<"roster_files", "/", "p1.jpg", "?", "v1">>)

\* C7.  While a field is captured, a known entity reference appends the
\* entity's character to the buffer (amp gives &) and the end tag commits the
\* buffer as it stands.
C7_EntityDecoded ==
  [][ /\ (Capturing /\ EntityrefStep /\ ev'.name \in DOMAIN entitydefs)
         => ( /\ err' = "none" /\ state' = state
              /\ data' = data \o entitydefs[ev'.name]
              /\ ev'.name = "amp" => data' = Append(data, "&") )
      /\ (state = "seeking_course_data" /\ EndtagStep)
         => Holds(course_data', current_key, data)
      /\ (state = "seeking_student_data" /\ EndtagStep)
         => /\ current_index \in DOMAIN student_records'
            /\ Holds(student_records'[current_index], current_key, data) ]_vars

\* A field has been committed whose text had an entity between two texts.
C7_Witness ==
  /\ ev.kind = "endtag" /\ state = "seeking_key"
  /\ \E k \in DOMAIN course_data :
       course_data[k] = TextDoeJane \o <<"&">> \o TextDoeJane

\* C8.  While a field is captured, an entity reference with an unknown name
\* raises nothing and leaves buffer and state as they are.
C8_UnknownEntitySkipped ==
  [][ (Capturing /\ err = "none" /\ EntityrefStep /\ ev'.name \notin DOMAIN entitydefs)
      => (err' = "none" /\ state' = state /\ data' = data) ]_vars

\* C9.  No sequence of markup events ends in MachineError.
C9_NoMachineError == err # "MachineError"

\* C10.  After a photo marker, the machine waits for the img src: text, entity
\* references, end tags and start tags other than an img with src (their
\* attributes having values) raise nothing, keep the machine in
\* seeking_student_image and add no photo.
C10_WaitsForImage ==
  [][ ( /\ state = "seeking_student_image" /\ err = "none"
        /\ ~(AttrStep /\ cur_tag = "img" /\ ev'.attr.name = "src")
        /\ ~(AttrStep /\ ~ev'.attr.value.has) )
      => ( /\ err' = "none" /\ state' = "seeking_student_image"
           /\ student_records' = student_records ) ]_vars

\* The document of the first TargetContent frame, parsed alone by a new
\* AlbertRosterHtmlParser.
FirstSrc == dict(first_frame.attrs)["src"]
TopDir == os_path_dirname(frameset.infile)
ChildPath == os_path_join(TopDir, FirstSrc.v)
ChildDir == os_path_dirname(ChildPath)
ChildAlone == parse(NewAlbertRosterHtmlParser, ChildPath)

\* C11.  For a top-level document with a frame or iframe named TargetContent,
\* the frameset parser's parse returns the course and students that a new
\* AlbertRosterHtmlParser's parse gives for the frame's document (and raises
\* what it raises), and every photo path of the student records is the img src
\* joined with the directory of the frame's document: the directory of the
\* top-level document's directory joined with the frame's src.
C11_FramesetReturnsChildResult ==
  /\ frameset.pc = "returned"
       => /\ first_frame.has
          /\ ChildAlone.err = "none"
          /\ frameset.result.course = ChildAlone.course_data
          /\ frameset.result.students = ChildAlone.student_vcards
          /\ \A i \in DOMAIN frameset.subparser.v.student_records :
               LET student == frameset.subparser.v.student_records[i]
               IN "photo" \in DOMAIN student
                    => student["photo"] = os_path_join(ChildDir, ImgSrc)
  /\ ( /\ frameset.pc = "raised" /\ first_frame.has
       /\ "src" \in DOMAIN dict(first_frame.attrs) )
       => frameset.err = ChildAlone.err

\* parse has returned the roster of top/roster_files/main.html, whose
\* student's photo was read from top/roster_files, not from top.
C11_Witness ==
  /\ frameset.pc = "returned"
  /\ frameset.infile = <<"top", "/", "index.html">>
  /\ FirstSrc = Some(<<"roster_files", "/", "main.html">>)
  /\ Len(frameset.result.students) = 1
  /\ frameset.result.students[1].photo = <<"JPEG_A">>
  /\ frameset.result.students[1].n = [family |-> <<"D", "o", "e">>,
                                      given |-> <<"J", "a", "n", "e">>]
  /\ Holds(frameset.result.course, "term", <<"A">>)
  /\ frameset.subparser.v.student_records[0]["photo"]
       = <<"top", "/", "roster_files", "/", "photo_0.jpg">>

\* C12.  A parse of a document none of whose start tags is a frame or iframe
\* named TargetContent ends in an error raised to the caller; it returns
\* nothing, so never an empty course with no students.
C12_NoFrameIsAnError ==
  (frameset.pc \in {"returned", "raised"} /\ ~first_frame.has)
    => /\ frameset.pc = "raised"
       /\ frameset.err = "AttributeError"
       /\ ~frameset.result.has

\* The parse of a document with two start tags, the last a frame with another
\* name, has raised.
C12_Witness ==
  /\ frameset.pc = "raised" /\ ~first_frame.has
  /\ frameset.ntags = 2
  /\ frameset.tag = "frame"
  /\ frameset.attrs = << Attr("name", <<"nav">>), Attr("src", <<"other.html">>) >>
  /\ frameset.err = "AttributeError"

\* C13.  One parse uses the first frame or iframe named TargetContent and no
\* other: at most one AlbertRosterHtmlParser is ever made, however many such
\* frames have been handled; roster_frame and the subparser's directory are
\* those of the first such frame and stay so; and what parse returns is that
\* one subparser's data.
C13_FirstFrameOnly ==
  /\ frameset.children <= 1
  /\ frameset.subparser.has <=> frameset.children = 1
  /\ frameset.roster_frame.has
       => /\ first_frame.has
          /\ frameset.roster_frame.v = ChildPath
          /\ frameset.subparser.has
          /\ frameset.subparser.v.base_dir = Some(ChildDir)
  /\ frameset.pc = "returned"
       => /\ frameset.result.course = frameset.subparser.v.course_data
          /\ frameset.result.students = frameset.subparser.v.student_vcards

\* parse has returned the first frame's data (the roster of one student)
\* after a later iframe, also named TargetContent, pointed at another page.
C13_Witness ==
  /\ frameset.pc = "returned"
  /\ frameset.children = 1
  /\ FirstSrc = Some(<<"roster_files", "/", "main.html">>)
  /\ frameset.tag = "iframe"
  /\ frameset.attrs = << Attr("src", <<"other.html">>), TargetContent >>
  /\ Len(frameset.result.students) = 1

\* A student record that has what a vCard is made of, but for its email and
\* its photo, which it may lack: a name with its comma, a program and plan of
\* two parts and, if it names a photo, one whose file is there.
LacksAtMostEmailOrPhoto(student) ==
  /\ "name" \in DOMAIN student /\ Len(split(student["name"], <<",">>)) = 2
  /\ "progplan" \in DOMAIN student
  /\ Len(unpack_progplan(student["progplan"])) = 2
  /\ "photo" \in DOMAIN student => student["photo"] \in DOMAIN PhotoFiles

HasCourse(course) ==
  \A k \in {"code", "term", "org"} : k \in DOMAIN course /\ course[k] # NewDict

\* C14.  A student record that lacks its email or its photo is tolerated:
\* parse, which makes a vCard of every student record once the document is
\* fed, returns, with one vCard per record.
C14_MissingEmailOrPhotoTolerated ==
  ( /\ roster_parser.pc \in {"returned", "raised"}
    /\ HasCourse(roster_parser.p.course_data)
    /\ \A i \in DOMAIN roster_parser.p.student_records :
         LacksAtMostEmailOrPhoto(roster_parser.p.student_records[i]) )
  => /\ roster_parser.pc = "returned"
     /\ Len(roster_parser.p.student_vcards)
          = Cardinality(DOMAIN roster_parser.p.student_records)

\* How often the character c is in s
Count(s, c) == Cardinality({i \in DOMAIN s : s[i] = c})

\* C16 as stated.  For the same roster rows the CSV pipeline (AmcCsvWriter)
\* and the XLS pipeline (AlbertRosterXlsParser, then VcardAmcCsvWriter) emit
\* the same header and the same rows in the same order.
C16_PipelinesAgree ==
  vcard_amc.pc \in {"returned", "raised"} => vcard_amc.out = amc.out

\* A row AlbertRosterXlsParser.student_to_vcard makes a vCard of.
XlsAccepts(student) ==
  /\ Count(student["Name"], ",") = 1
  /\ Len(unpack_progplan(student["Program and Plan"])) = 2
  /\ IsDecimal(student["Catalog"]) /\ IsDecimal(student["Section"])

\* C16, amended.  For roster rows that the XLS parser makes vCards of (a name
\* with exactly one comma, a program and plan of two parts, a catalog and a
\* section number), both pipelines emit the header and then the same rows in
\* the same order, the row computed from a vCard being the row computed from
\* the roster row, and they end alike: both return, or both raise at the
\* first row whose Email Address has not exactly one @.
C16_PipelinesAgreeOnVcards ==
  ( /\ vcard_amc.pc \in {"returned", "raised"}
    /\ \A i \in DOMAIN roster : XlsAccepts(roster[i]) )
  => /\ vcard_amc.out = amc.out
     /\ vcard_amc.pc = amc.pc
     /\ vcard_amc.out[1] = writeheader
     /\ Len(vcard_amc.cards) = Len(roster)
     /\ \A i \in DOMAIN roster :
          /\ VcardAmcCsvWriter_row(vcard_amc.cards[i]) = AmcCsvWriter_row(roster[i])
          /\ Count(roster[i]["Email Address"], "@") = 1
               => /\ i + 1 \in DOMAIN vcard_amc.out
                  /\ vcard_amc.out[i + 1]
                       = writerow(AmcCsvWriter_row(roster[i]).row)

\* Both pipelines have written the header and two rows, the second with a
\* quoted field.
C16_Witness ==
  /\ vcard_amc.pc = "returned" /\ amc.pc = "returned"
  /\ Len(roster) = 2
  /\ roster[1]["Name"] = TextDoeJane
  /\ roster[2]["Campus ID"] = <<"N", "3", "N", "4">>
  /\ Len(vcard_amc.out) = 3
  /\ vcard_amc.out[3] =
       <<"N", "3", "N", "4", ",", "R", "o", "e", ",", "\"", "J", "\"", "\"", "o", "\"",
         ",", "r", ",", "r", "@", "n", "y", "u", ",", "3", "4", "\r", "\n">>

\* What is before and after the first c of s
Before(s, c) ==
  SubSeq(s, 1, (CHOOSE i \in DOMAIN s : s[i] = c /\ \A j \in 1..(i - 1) : s[j] # c) - 1)
After(s, c) ==
  SubSeq(s, (CHOOSE i \in DOMAIN s : s[i] = c /\ \A j \in 1..(i - 1) : s[j] # c) + 1,
         Len(s))

HeaderLine ==
  <<"Campus", " ", "ID", ",", "surname", ",", "name", ",", "NetID", ",", "email",
    ",", "id", "\r", "\n">>

\* The line of a student whose Name has one comma and whose Email Address has
\* one @.
LineOf(student) ==
  csv_field(student["Campus ID"]) \o <<",">>
  \o csv_field(Before(student["Name"], ",")) \o <<",">>
  \o csv_field(After(student["Name"], ",")) \o <<",">>
  \o csv_field(Before(student["Email Address"], "@")) \o <<",">>
  \o csv_field(student["Email Address"]) \o <<",">>
  \o csv_field(SelectSeq(student["Campus ID"], LAMBDA c : c # "N"))
  \o <<"\r", "\n">>

Unpacks(student) ==
  Count(student["Name"], ",") = 1 /\ Count(student["Email Address"], "@") = 1

\* C17.  AmcCsvWriter.write emits the header once, before any row, and then
\* one row per student in the order read: Campus ID, the two parts of Name
\* about its comma, the part of Email Address before the @, Email Address,
\* and Campus ID without its letters N.  A student whose Email Address has
\* not exactly one @ or whose Name has not exactly one comma ends the write
\* in an error, with no row for that student.
C17_AmcCsvWriterRows ==
  /\ amc.pc = "new" => amc.out = <<>> /\ roster = <<>>
  /\ amc.pc # "new" => Len(amc.out) >= 1 /\ amc.out[1] = HeaderLine
  /\ \A i \in 2..Len(amc.out) : amc.out[i] # HeaderLine
  /\ \A i \in DOMAIN roster :
       (i < Len(roster) \/ amc.pc # "raised")
         => /\ Unpacks(roster[i])
            /\ i + 1 \in DOMAIN amc.out
            /\ amc.out[i + 1] = LineOf(roster[i])
  /\ amc.pc \in {"rows", "returned"}
       => amc.err = "none" /\ Len(amc.out) = Len(roster) + 1
  /\ amc.pc = "raised"
       => /\ roster # <<>>
          /\ ~Unpacks(roster[Len(roster)])
          /\ amc.err = "ValueError"
          /\ Len(amc.out) = Len(roster)

\* write has returned after the header and two rows, the second one's id
\* being its Campus ID N3N4 without both letters N.
C17_Witness ==
  /\ amc.pc = "returned"
  /\ Len(roster) = 2
  /\ roster[2]["Campus ID"] = <<"N", "3", "N", "4">>
  /\ amc.out[2] = <<"N", "1", "2", ",", "D", "o", "e", ",", "J", "a", "n", "e", ",",
                    "j", "d", ",", "j", "d", "@", "n", "y", "u", ",", "1", "2",
                    "\r", "\n">>
  /\ Len(amc.out) = 3

\* C18.  Whenever the machine is in seeking_key, the text buffer is empty,
\* the current field name is empty and the current index is 0, after a field
\* commit and after a photo commit alike.
C18_SeekingKeyIsCleared ==
  state = "seeking_key" => data = <<>> /\ current_key = "" /\ current_index = 0

\* C19.  A MachineError, whichever event met a state with no transition for
\* it, has been logged with the current field name, the tag and the
\* attributes by the time it leaves the handler.
C19_MachineErrorLogged ==
  logger.p.err = "MachineError"
    => /\ Len(log) = 3
       /\ log[1] = <<"current_key", logger.p.current_key>>
       /\ log[2][1] = "tag"
       /\ log[3][1] = "attrs"

\* A key has been matched and its end tag has not arrived.
FieldOpen ==
  state \in {"found_course_key", "found_student_key", "seeking_course_data",
             "seeking_student_data"}

\* C20.  While a field is being captured nothing is committed: every step
\* but an end tag's that leaves the machine with a field open (the match of
\* the key, the other attributes of its tag, the end of the attributes, text
\* and entity references buffered, an exception) leaves the course record and the
\* student records as they were, with no record made for the index, so that
\* a stream that ends there has committed nothing of the field.  The end
\* tag's own step is the commit, whether or not it raises.
C20_UnterminatedFieldCommitsNothing ==
  [][ (FieldOpen' /\ ~EndtagStep) => /\ course_data' = course_data
                                     /\ student_records' = student_records ]_vars

\* Text of a student field is in the buffer, no end tag has come, and no
\* student has a record.
C20_Witness ==
  /\ state = "seeking_student_data"
  /\ current_key = "name"
  /\ data = TextDoeJane
  /\ err = "none"
  /\ student_records = EmptyDict

\* What machine_handle_attr did to the seeker: nothing, as far as state,
\* index, field name and records go.
SeekerUnmoved ==
  /\ seeker.p.state = seeker.was.state
  /\ seeker.p.current_index = seeker.was.current_index
  /\ seeker.p.current_key = seeker.was.current_key
  /\ seeker.p.course_data = seeker.was.course_data
  /\ seeker.p.student_records = seeker.was.student_records

\* The three classes an id value may fall in, as the registry words them.
KeyClasses(v) ==
  {c \in {"course", "student", "photo"} :
     \/ c = "course" /\ IsCourseId(v)
     \/ c = "student" /\ IsStudentId(v)
     \/ c = "photo" /\ IsPhotoId(v)}

\* C21.  In seeking_key an attribute named id whose value is a course key
\* moves the machine to found_course_key with the mapped field name; else a
\* value base$digits with a student key as base moves it to
\* found_student_key with the mapped field name and the index; else a value
\* base$digits with the photo marker as base moves it to
\* seeking_student_image with the index; every other attribute leaves state,
\* index, field name and records as they were.  No value is of two classes.
C21_KeyClassification ==
  seeker.pc = "handled"
    => LET attr == seeker.attr
           v == attr.value.v
           p == seeker.p
           keeps == /\ p.course_data = seeker.was.course_data
                    /\ p.student_records = seeker.was.student_records
       IN /\ attr.value.has => Cardinality(KeyClasses(v)) <= 1
          /\ IF attr.name = "id" /\ attr.value.has /\ IsCourseId(v)
             THEN /\ p.state = "found_course_key" /\ p.err = "none"
                  /\ p.current_key = course_keys_dict[v]
                  /\ keeps
             ELSE IF attr.name = "id" /\ attr.value.has /\ IsStudentId(v)
             THEN /\ p.state = "found_student_key" /\ p.err = "none"
                  /\ p.current_key = student_keys_dict[StudentBase(v)]
                  /\ p.current_index = IndexIn(v, StudentBase(v))
                  /\ keeps
             ELSE IF attr.name = "id" /\ attr.value.has /\ IsPhotoId(v)
             THEN /\ p.state = "seeking_student_image" /\ p.err = "none"
                  /\ p.current_index = IndexIn(v, photo_key)
                  /\ keeps
             ELSE SeekerUnmoved

\* C22.  Once an attribute of a start tag has matched a course or student
\* key, every later attribute of the tag, whatever it carries, raises
\* nothing and changes neither state, field name, index, buffer nor records;
\* the end tag then commits under the field name and index of the first
\* match.
C22_LaterAttributesIgnored ==
  [][ /\ (state \in {"found_course_key", "found_student_key"} /\ AttrStep)
         => ( /\ err' = "none" /\ state' = state
              /\ UNCHANGED <<course_data, student_records, current_key,
                             current_index, data>> )
      /\ (state = "seeking_course_data" /\ EndtagStep)
         => ( /\ IsCourseId(open_id.v)
              /\ Holds(course_data', course_keys_dict[open_id.v], data)
              /\ SameBut(course_data, course_data',
                         {course_keys_dict[open_id.v]} \cup Unpacked)
              /\ student_records' = student_records )
      /\ (state = "seeking_student_data" /\ EndtagStep)
         => ( /\ IsStudentId(open_id.v)
              /\ LET b == StudentBase(open_id.v)
                     i == IndexIn(open_id.v, b)
                 IN student_records' =
                      DictSet(student_records, i,
                              DictSet(RecordOf(student_records, i),
                                      student_keys_dict[b], data))
              /\ course_data' = course_data ) ]_vars

\* The start tag's first attribute matched the name of student 0; its second
\* carries the photo marker of student 1 and has changed nothing.
C22_Witness ==
  /\ state = "found_student_key" /\ err = "none"
  /\ nattrs = 2
  /\ ev.kind = "attr" /\ ev.attr = Attr("id", PhotoId(<<"1">>))
  /\ open_id = Some(NameId(<<"0">>))
  /\ current_key = "name" /\ current_index = 0

\* C23.  The attributes-finished signal moves found_course_key to
\* seeking_course_data and found_student_key to seeking_student_data, and in
\* seeking_key and seeking_student_image leaves the state as it is; in all
\* four it raises nothing and changes no record, buffer, field name or index.
C23_AttributesFinished ==
  [][ (FinishStep /\ state \in {"found_course_key", "found_student_key",
                                "seeking_key", "seeking_student_image"})
      => ( /\ err' = "none"
           /\ state' = CASE state = "found_course_key" -> "seeking_course_data"
                         [] state = "found_student_key" -> "seeking_student_data"
                         [] OTHER -> state
           /\ UNCHANGED <<course_data, student_records, data, current_key,
                          current_index>> ) ]_vars

\* The signal has moved the machine from found_student_key on, after a start
\* tag of two attributes.
C23_Witness ==
  /\ ev.kind = "finish" /\ err = "none"
  /\ state = "seeking_student_data"
  /\ open_id = Some(EmailId(<<"0", "1">>))
  /\ current_key = "email" /\ current_index = 1

\* C24.  In seeking_student_image an attribute that is not the src of an img
\* tag, be it an id with a course key, a student key or another photo marker,
\* leaves the state, the index of the marker that entered the state and the
\* records as they are, and raises nothing when it has a value; the img src
\* that follows is stored under that first marker's index.
C24_OnlyImgSrcLeavesImageState ==
  [][ /\ ( /\ state = "seeking_student_image" /\ AttrStep
           /\ ~(cur_tag = "img" /\ ev'.attr.name = "src") )
         => ( /\ state' = "seeking_student_image"
              /\ IsPhotoId(open_id.v)
              /\ current_index = IndexIn(open_id.v, photo_key)
              /\ current_index' = current_index
              /\ UNCHANGED <<course_data, student_records>>
              /\ ev'.attr.value.has => err' = "none" )
      /\ ( /\ state = "seeking_student_image" /\ AttrStep
           /\ cur_tag = "img" /\ ev'.attr.name = "src" /\ ev'.attr.value.has )
         => ( /\ state' = "seeking_key"
              /\ DOMAIN student_records'
                   = DOMAIN student_records \cup {IndexIn(open_id.v, photo_key)}
              /\ SameBut(student_records, student_records',
                         {IndexIn(open_id.v, photo_key)})
              /\ "photo" \in DOMAIN student_records'[IndexIn(open_id.v, photo_key)] ) ]_vars

\* The marker of student 1 entered the state; the marker of student 0 has
\* come after it and the index is still 1.
C24_Witness ==
  /\ state = "seeking_student_image" /\ err = "none"
  /\ ev.kind = "attr" /\ ev.attr = Attr("id", PhotoId(<<"0">>))
  /\ open_id = Some(PhotoId(<<"1">>))
  /\ current_index = 1

\* What the event of this step adds to the text of a field: the content of a
\* text event, the character of a known entity reference, else nothing.
Heard ==
  IF DataStep THEN ev'.text
  ELSE IF EntityrefStep /\ ev'.name \in DOMAIN entitydefs THEN entitydefs[ev'.name]
  ELSE <<>>

\* The buffer is empty when a key is matched, and from then to the end tag
\* every event that raises nothing adds what it carries at the end of the
\* buffer and keeps field name and index.
BufferFollowsEvents ==
  /\ (state = "seeking_key" /\ state' # "seeking_key") => data' = <<>>
  /\ (FieldOpen /\ ~EndtagStep /\ err' = "none")
       => ( /\ FieldOpen'
            /\ data' = data \o Heard
            /\ UNCHANGED <<current_key, current_index>> )

\* The end tag stores the buffer under the field name, in the course record
\* or in the record of the index.
CommitStores ==
  /\ (state = "seeking_course_data" /\ EndtagStep)
       => ( /\ Holds(course_data', current_key, data)
            /\ student_records' = student_records )
  /\ (state = "seeking_student_data" /\ EndtagStep)
       => ( /\ current_index \in DOMAIN student_records'
            /\ Holds(student_records'[current_index], current_key, data)
            /\ course_data' = course_data )

\* C25, as claimed.  The value committed for a field is the concatenation,
\* in document order, of the texts and known entities received since the
\* start tag that matched its key; the end tag stores it under the field
\* name, in the course record or the record of the index, and moves the
\* machine to seeking_key.
C25_CommitIsConcatenation ==
  [][ /\ BufferFollowsEvents
      /\ CommitStores
      /\ (Capturing /\ EndtagStep) => state' = "seeking_key" ]_vars

\* The description's end tag raises when the text does not unpack.
DescriptionRaises ==
  /\ state = "seeking_course_data"
  /\ current_key = "description"
  /\ Len(split(data, <<" ", "|", " ">>)) # 4

\* C25, amended.  As above, except that the end tag of a course description
\* that does not split into four components stores the text, raises
\* ValueError and leaves the machine in seeking_course_data; every other
\* committing end tag raises nothing and moves the machine to seeking_key.
C25_CommitIsConcatenationUnlessRaised ==
  [][ /\ BufferFollowsEvents
      /\ CommitStores
      /\ (Capturing /\ EndtagStep)
           => IF DescriptionRaises
              THEN err' = "ValueError" /\ state' = state
              ELSE err' = "none" /\ state' = "seeking_key" ]_vars

\* The name of student 0 has been committed from a text, an entity and a
\* second text.
C25_Witness ==
  /\ ev.kind = "endtag" /\ state = "seeking_key" /\ err = "none"
  /\ open_id = Some(NameId(<<"0">>))
  /\ 0 \in DOMAIN student_records
  /\ Holds(student_records[0], "name", TextDoeJane \o <<"&">> \o TextABCD)

\* C26.  In seeking_key a text event, an entity reference of a known or an
\* unknown name, an end tag and the attributes-finished signal raise nothing
\* and leave the state, the course record, the student records, the buffer,
\* the field name and the index as they are.
C26_IgnoredInSeekingKey ==
  [][ ( /\ state = "seeking_key"
        /\ DataStep \/ EntityrefStep \/ EndtagStep \/ FinishStep )
      => ( /\ err' = "none" /\ state' = "seeking_key"
           /\ UNCHANGED <<course_data, student_records, data, current_key,
                          current_index>> ) ]_vars

\* After a committed course field, an entity reference of unknown name has
\* been met in seeking_key.
C26_Witness ==
  /\ state = "seeking_key" /\ err = "none"
  /\ ev.kind = "entityref" /\ ev.name = "bogus"
  /\ Holds(course_data, "instructor", TextDoeJane)

\* C27, as claimed.  In every state, those an error leaves behind
\* included, the course record has a description exactly when it has term,
\* session, org and level, and these are the four components of the
\* description split on " | ".
C27_DescriptionAlwaysUnpacked ==
  /\ "description" \in DOMAIN course_data <=> Unpacked \subseteq DOMAIN course_data
  /\ "description" \in DOMAIN course_data
       => LET parts == split(course_data["description"], <<" ", "|", " ">>)
          IN /\ Len(parts) = 4
             /\ course_data["term"] = parts[1]
             /\ course_data["session"] = parts[2]
             /\ course_data["org"] = parts[3]
             /\ course_data["level"] = parts[4]

\* C27, amended.  The same in every state in which no error has been
\* raised.  The end tag of a description that raises stores the text and
\* leaves term, session, org and level as they were, absent or those of an
\* earlier description; the commit of any other course field neither adds
\* nor changes them.  The record is empty at first, so the equivalence need
\* only be looked at after the steps that change the record.
C27_DescriptionUnpackedUnlessRaised ==
  [][ /\ (course_data' # course_data /\ err' = "none")
           => C27_DescriptionAlwaysUnpacked'
      /\ (state = "seeking_course_data" /\ EndtagStep /\ err' # "none")
           => ( /\ current_key = "description" /\ err' = "ValueError"
                /\ Holds(course_data', "description", data)
                /\ SameBut(course_data, course_data', {"description"}) )
      /\ (state = "seeking_course_data" /\ EndtagStep /\ current_key # "description")
           => SameBut(course_data, course_data', {current_key}) ]_vars

\* A description has been committed and unpacked, and the instructor after it.
C27_Witness ==
  /\ ev.kind = "endtag" /\ state = "seeking_key" /\ err = "none"
  /\ open_id = Some(InstructorId)
  /\ DOMAIN course_data = {"description", "instructor"} \cup Unpacked
  /\ course_data["description"] = TextABCD
  /\ course_data["session"] = <<"B">>

\* The step commits a student field or a photo.
StudentCommit ==
  \/ state = "seeking_student_data" /\ EndtagStep
  \/ state = "seeking_student_image" /\ AttrStep /\ state' = "seeking_key"

\* C28.  student_records has a key i exactly when a field or a photo has
\* been committed for i: the records change only in a commit, which leaves
\* a record under the current index; no record is empty; no record and no
\* field of a record is ever removed.
C28_RecordsMadeByCommits ==
  [][ /\ student_records' # student_records => StudentCommit
      /\ StudentCommit
           => ( /\ current_index \in DOMAIN student_records'
                /\ SameBut(student_records, student_records', {current_index}) )
      /\ \A i \in DOMAIN student_records' : DOMAIN student_records'[i] # {}
      /\ \A i \in DOMAIN student_records :
           /\ i \in DOMAIN student_records'
           /\ DOMAIN student_records[i] \subseteq DOMAIN student_records'[i] ]_vars

\* Student 1 has a record made by the commit of the email and added to by
\* the commit of the photo; no other index has one.
C28_Witness ==
  /\ state = "seeking_key" /\ err = "none"
  /\ DOMAIN student_records = {1}
  /\ DOMAIN student_records[1] = {"email", "photo"}

\* What an event of one instance leaves of the others and of the class: the
\* state, buffer, course record and student records of every other instance
\* are what they were, and so are the key tables and the photo marker.
OthersUntouched ==
  /\ \A j \in DOMAIN instances.objs :
       j # instances'.last
         => /\ j \in DOMAIN instances'.objs
            /\ getattr(instances'.heap, instances'.objs[j])
                 = getattr(instances.heap, instances.objs[j])
  /\ SubSeq(instances'.heap, 1, Len(ClassAttributes)) = ClassAttributes

AtMostOneTransition(name) ==
  \/ state' = state
  \/ \E k \in DOMAIN Transitions :
       /\ Transitions[k].trigger = name
       /\ Transitions[k].source = state
       /\ Transitions[k].dest = state'

\* The step takes one event off the stream: a handler call, or inside
\* handle_starttag one attribute, or the signal that ends its loop.
ConsumesOneEvent ==
  \/ nevents' = nevents + 1
  \/ nevents' = nevents /\ cur_tag' = cur_tag /\ nattrs' = nattrs + 1
  \/ nevents' = nevents /\ cur_tag # "" /\ cur_tag' = ""

\* C30.  Every step of the parser consumes one event and moves the machine
\* along at most one transition, that of the event's trigger; no step follows
\* an event that raised; the events consumed never exceed the stream's
\* length.  The parser therefore reaches the end of a finite stream or stops
\* at the first error, in as many steps as events.
C30_OneTransitionPerEvent ==
  [][ html_vars' # html_vars
      => ( /\ err = "none"
           /\ ConsumesOneEvent
           /\ nevents' <= MaxEvents /\ nattrs' <= MaxAttrs
           /\ AttrStep => AtMostOneTransition("machine_handle_attr")
           /\ FinishStep => AtMostOneTransition("finish_handling_attrs")
           /\ DataStep => AtMostOneTransition("machine_handle_data")
           /\ EntityrefStep => AtMostOneTransition("machine_handle_entityref")
           /\ EndtagStep => AtMostOneTransition("machine_handle_endtag")
           /\ ~(AttrStep \/ FinishStep \/ DataStep \/ EntityrefStep \/ EndtagStep)
                => state' = state ) ]_vars

\* The stream has been read to its end without error, the photo of student
\* 0 and a field or photo of student 1 having been committed on the way.
C30_Witness ==
  /\ nevents = MaxEvents /\ cur_tag = "" /\ err = "none"
  /\ state = "seeking_key"
  /\ DOMAIN student_records = {0, 1}
  /\ DOMAIN student_records[0] = {"photo"}

\* C31.  found_course_key and found_student_key are occupied only inside
\* handle_starttag, while the attributes of one start tag are looped over:
\* in these states the handler's loop is running and nothing has been raised,
\* and a step that enters handle_starttag, or hands the machine text, an
\* entity reference or an end tag, starts from one of the four other states.
Found == {"found_course_key", "found_student_key"}

C31_FoundOnlyInsideStarttag ==
  /\ state \in Found => (cur_tag # "" /\ err = "none")
  /\ cur_tag = "" => state \in {"seeking_key", "seeking_course_data",
                                "seeking_student_data", "seeking_student_image"}

\* A found_* state in which a further attribute of the tag has been handled.
C31_Witness ==
  /\ state = "found_student_key"
  /\ nattrs = 2
  /\ cur_tag # ""

\* C32.  A start tag received while a field is captured raises MachineError,
\* with attributes (at the first of them) or without (at
\* finish_handling_attrs), and leaves the machine state, the buffer, the
\* current field name and index, the course record and the student records
\* as they were before the start tag.
C32_StarttagWhileCapturingRaises ==
  [][ (Capturing /\ cur_tag # "" /\ err = "none")
      => ( /\ AttrStep \/ FinishStep
           /\ err' = "MachineError"
           /\ UNCHANGED <<state, data, current_key, current_index,
                          course_data, student_records>> ) ]_vars

\* A start tag without attributes has raised while a student field with
\* buffered text was captured.
C32_Witness ==
  /\ state = "seeking_student_data"
  /\ err = "MachineError"
  /\ ev.kind = "finish"
  /\ data # <<>>

\* C33.  The text buffer is non-empty only in seeking_course_data and
\* seeking_student_data: in seeking_key, found_course_key, found_student_key
\* and seeking_student_image it is the empty string.
C33_BufferEmptyOutsideCapture ==
  state \in {"seeking_key", "found_course_key", "found_student_key",
             "seeking_student_image"} => data = <<>>

\* A field with text has been committed and the machine has gone on to the
\* key of a later field.
C33_Witness ==
  /\ state \in Found
  /\ data = <<>>
  /\ \/ \E k \in DOMAIN course_data : course_data[k] # <<>>
     \/ \E i \in DOMAIN student_records :
          \E k \in DOMAIN student_records[i] : student_records[i][k] # <<>>

\* The field names of the registry.
StudentFields == {student_keys_dict[k] : k \in DOMAIN student_keys_dict}
CourseFields == {course_keys_dict[k] : k \in DOMAIN course_keys_dict}

\* C34.  The keys of every student record are field names of the student
\* table or photo, the keys of the course record are field names of the
\* course table or term, session, org, level, and no entry is stored under
\* the empty field name.
C34_CommitsUnderRegistryNames ==
  /\ DOMAIN course_data \subseteq (CourseFields \cup Unpacked) \ {""}
  /\ \A i \in DOMAIN student_records :
       DOMAIN student_records[i] \subseteq (StudentFields \cup {"photo"}) \ {""}

\* A description has been committed and unpacked, and a student has a photo.
C34_Witness ==
  /\ {"description", "term"} \subseteq DOMAIN course_data
  /\ \E i \in DOMAIN student_records : "photo" \in DOMAIN student_records[i]

\* What the record holds for a value the page gave: a field's text, or a
\* photo's src under the directory of the page.
Stored(key, value, p) ==
  IF key.kind = "photo" THEN os_path_join(p.base_dir.v, value) ELSE value

\* C35.  A second commit under the same course key, or the same student key
\* and index, or of a photo for the same index, leaves the value of the
\* second commit in the record: the earlier value is replaced, and the other
\* entries of the records are those from before the second commit (with
\* term, session, org and level going with a description).
C35_LastWriteWins ==
  repeat.pc = "twice" =>
    LET key == repeat.key
        was == repeat.was
        now == repeat.p
        i == key.index
    IN IF key.kind = "course"
       THEN /\ Holds(now.course_data, key.field, repeat.value)
            /\ SameBut(was.course_data, now.course_data,
                       IF key.field = "description" THEN {key.field} \cup Unpacked
                       ELSE {key.field})
            /\ now.student_records = was.student_records
       ELSE /\ i \in DOMAIN now.student_records
            /\ i \in DOMAIN was.student_records
            /\ Holds(now.student_records[i], key.field,
                     Stored(key, repeat.value, now))
            /\ SameBut(was.student_records[i], now.student_records[i], {key.field})
            /\ SameBut(was.student_records, now.student_records, {i})
            /\ now.course_data = was.course_data

\* A student field has been committed a second time with another text, in a
\* record that holds other entries.
C35_Witness ==
  /\ repeat.pc = "twice"
  /\ repeat.key.kind = "student"
  /\ repeat.was.student_records[repeat.key.index][repeat.key.field] # <<>>
  /\ repeat.was.student_records[repeat.key.index][repeat.key.field] # repeat.value
  /\ DOMAIN repeat.p.student_records[repeat.key.index] # {repeat.key.field}

\* C36.  The first end tag received in seeking_course_data or
\* seeking_student_data stores the buffer under the field name, in the course
\* record or in the record of the index, whatever the names of the end tag
\* and of the start tag that carried the key: the text heard in between,
\* and the empty string when there was none.
C36_AnyEndtagCommits ==
  (seeker.pc = "ended"
   /\ seeker.was.state \in {"seeking_course_data", "seeking_student_data"})
    => LET was == seeker.was
           now == seeker.p
           i == was.current_index
       IN /\ was.current_key # ""
          /\ IF was.state = "seeking_course_data"
             THEN /\ Holds(now.course_data, was.current_key, seeker.heard)
                  /\ now.student_records = was.student_records
             ELSE /\ i \in DOMAIN now.student_records
                  /\ Holds(now.student_records[i], was.current_key, seeker.heard)
                  /\ now.course_data = was.course_data

\* A span's student key has been committed by the end tag of a td, with no
\* text in between, in a record that held a text under that field name.
C36_Witness ==
  /\ seeker.pc = "ended"
  /\ seeker.was.state = "seeking_student_data"
  /\ seeker.tag = "span"
  /\ seeker.endtag = "td"
  /\ seeker.heard = <<>>
  /\ seeker.p.state = "seeking_key"
  /\ 0 \in DOMAIN seeker.was.student_records
  /\ Holds(seeker.was.student_records[0], "name", TextDoeJane)
  /\ Holds(seeker.p.student_records[0], "name", <<>>)

\* The step stores the src of an img as the photo of the current index.
PhotoStep == AttrStep /\ state = "seeking_student_image" /\ state' = "seeking_key"

\* The step changes student_records in record i at field name k and nowhere
\* else, and leaves the course record alone.
OneStudentEntry(i, k) ==
  /\ i \in DOMAIN student_records'
  /\ k \in DOMAIN student_records'[i]
  /\ SameBut(RecordOf(student_records, i), student_records'[i], {k})
  /\ SameBut(student_records, student_records', {i})
  /\ course_data' = course_data

\* C37.  A commit changes one entry.  The end tag of a student field and the
\* src of a photo change student_records[current index] at the field name,
\* or at photo, and nothing else in the records; the end tag of a course
\* field changes the course record at the field name, and at term, session,
\* org and level when the field is description, and nothing else.
C37_CommitChangesOneEntry ==
  [][ /\ (state = "seeking_student_data" /\ EndtagStep)
           => OneStudentEntry(current_index, current_key)
      /\ PhotoStep => OneStudentEntry(current_index, "photo")
      /\ (state = "seeking_course_data" /\ EndtagStep)
           => ( /\ current_key \in DOMAIN course_data'
                /\ SameBut(course_data, course_data',
                           IF current_key = "description"
                           THEN {current_key} \cup Unpacked ELSE {current_key})
                /\ student_records' = student_records ) ]_vars

\* The photo of student 1 has been stored in records that hold a field of
\* student 0.
C37_Witness ==
  /\ ev.kind = "attr" /\ ev.attr.name = "src"
  /\ state = "seeking_key"
  /\ DOMAIN student_records = {0, 1}
  /\ DOMAIN student_records[1] = {"photo"}
  /\ student_records[0] # EmptyDict

\* The step is one call of handle_charref.
CharrefStep == nevents' = nevents + 1 /\ ev'.kind = "charref"

\* C38.  A numeric character reference is ignored in every state: it moves
\* the machine nowhere, raises nothing, and leaves the buffer, the field name
\* and index and the records as they were, so that the text committed for
\* the field is without the character.
C38_CharrefIgnored ==
  [][ CharrefStep
      => ( /\ err' = "none"
           /\ UNCHANGED <<state, data, current_key, current_index, albert_key,
                          course_data, student_records>> ) ]_vars

\* A character reference has been met after the text of a student field.
C38_Witness ==
  /\ ev.kind = "charref"
  /\ state = "seeking_student_data"
  /\ data # <<>>
  /\ err = "none"









====
